---- MODULE Spec2Model ----
(***************************************************************************)
(* junos_exporter: the per-scrape collection pipeline.                     *)
(*                                                                         *)
(* Spec      the scheduler (Exporter.Collect / runCollector) running the   *)
(*           collectors' Get pipelines as concurrent workers, one scrape   *)
(*           after the other.  Three collectors stand for the three        *)
(*           pipeline shapes of the source: "interface" (one RPC),         *)
(*           "ipsec" (two RPCs, a decode after each) and "bgp" (three      *)
(*           RPCs, one more per routing instance, then the decodes).       *)
(* SpecConv  the numeric helpers newGauge / newCounter / newGaugeMB        *)
(*           applied to one field text after the other.                    *)
(* SpecState the mapping of state texts (power, environment, OSPF, route   *)
(*           engine) to 1.0 / 0.0.                                         *)
(* SpecArity the label names of the Descs against the label values passed  *)
(*           with each sample, for every configuration of keys.            *)
(* SpecRib   the per-instance part of the BGP mapping, run repeatedly on   *)
(*           the same replies; a range over a Go map visits its keys in    *)
(*           an order the runtime chooses, so the order is drawn.          *)
(* SpecPeer  the peer and interface labels of the BGP peer samples, for    *)
(*           every neighbor reply of up to MaxPeers entries.               *)
(* SpecInst  the range loop of the BGP Get over routeInstanceNames, for    *)
(*           every instance reply of up to MaxInstances names.             *)
(* SpecTypes the peer_types_up samples, for every list of type keys and    *)
(*           every neighbor reply of up to MaxPeers entries.               *)
(* SpecPrecl the class labels of the per-class statistics of one          *)
(*           interface, for every sequence of up to MaxClasses names.      *)
(* SpecLag   the traffic statistics source of one logical interface, for  *)
(*           every filling of the two sub-structures.                      *)
(* SpecDescr the look-up of the configured keys in the description of one *)
(*           interface, for every description and up to MaxKeys keys.      *)
(* SpecReq   the validation of one HTTP request, for every request and    *)
(*           allowed_targets lists of up to MaxTargets entries.            *)
(* SpecLive  Exporter.Collect, its workers and the receiver of the        *)
(*           metrics channel, with the scheduling stated as fairness.      *)
(* SpecTarget requests served at the same time, each with its own target  *)
(*           and configuration.                                            *)
(* SpecOptics the module alarm and warning gauges of one optics           *)
(*           interface, for every filling of the eight fields.             *)
(* SpecRace  overlapping scrapes: OSPFCollector.Get called by several      *)
(*           requests at once, all counting in totalOSPFErrors.            *)
(*                                                                         *)
(* A step of a worker is one blocking operation (a dial, an RPC, a send on  *)
(* the metrics channel) together with the local computation that follows   *)
(* it up to the next blocking operation.  A send is one step of the        *)
(* sender: the driver (the registry's Gather loop) is always ready to      *)
(* receive.  The text of a reply is only looked at by xml.Unmarshal, so    *)
(* its well-formedness is drawn where it is first decoded and kept where   *)
(* the same reply is decoded again.  The device fails a dial or an RPC, or *)
(* returns a malformed reply, at most MaxFaults times in one behaviour;    *)
(* a failure is counted where it is drawn, so a worker always has a step.  *)
(***************************************************************************)
EXTENDS Integers, Sequences, FiniteSets, TLC

\* ------------------------------------------------------------------ bounds
MaxScrapes == 2      \* scrapes started in one behaviour
MaxEnabled == 2      \* collectors enabled in one configuration
MaxItems   == 1      \* entries (each mapped to one sample) in one RPC reply
MaxFaults  == 2      \* failed dials, failed RPCs and malformed replies in all
MaxLen     == 3      \* characters in one field text
MaxFields  == 2      \* fields handed to the numeric helpers in a row
MaxKeys    == 2      \* configured description keys, and metric keys
MaxTotal   == 2      \* prefix counts of a RIB are 1..MaxTotal
MaxDecodes == 2      \* mappings of the same replies
MaxPeers   == 2      \* bgp-peer entries of a neighbor reply
MaxInstances == 3    \* instance-core entries of an instance reply
MaxClasses == 3      \* per-class statistics entries of one interface
MaxTargets == 2      \* entries of an allowed_targets list
MaxRequests == 2     \* requests with their own target served at the same time
MaxOverlap == 3      \* requests served at the same time

\* --------------------------------------------------------------- constants
Collectors     == {"interface", "bgp", "ipsec"}
CollectorOrder == <<"interface", "bgp", "ipsec">>

\* A routing-instance name, as the list of its parts.
InstanceNames   == { <<"__juniper", "_private1__">>, <<"CUSTOMER-A">> }
ReservedMarkers == {"__master", "__juniper", "mgmt_junos"}

Contains(name, marker) == \E i \in 1..Len(name) : name[i] = marker

IsReservedInstance(name) == \E m \in ReservedMarkers : Contains(name, m)

\* --------------------------------------------------------------- variables
VARIABLES
    scrapeNo,               \* scrapes started so far
    junosTotalScrapeCount,  \* process-wide scrape counter
    epc,                    \* position of Exporter.Collect
    enabled,                \* e.Collectors of the running scrape
    spawned,                \* collectors whose worker was started
    wg,                     \* the WaitGroup counter
    pc,                     \* position of each worker (runCollector + Get)
    session,                \* each worker's netconf session
    errs,                   \* len(errors) of each worker's Get call
    total,                  \* total<X>Errors, the cumulative counters
    retTotal,               \* the count Get returned
    todo,                   \* entries of the current loop still to map
    bgp,                    \* the BGP collector's replies and maps
    rpcs,                   \* RPCs issued by the Get call
    feat,                   \* feature samples sent by the Get call
    dials,                  \* DialSSH calls of the running scrape
    closes,                 \* Close calls of each worker's session
    outScrapes,             \* scrapes_total samples of the scrape, values
    outDur,                 \* scrape_duration_seconds samples per collector
    outErrTotal,            \* scrape_errors_total samples per collector
    outUp,                  \* collector_up samples per collector
    dialFailed,             \* this Get's dial failed
    rpcFailed,              \* this Get had an RPC failure
    decFailed,              \* this Get had a decode failure
    base,                   \* total<X>Errors when this Get was called
    faults,                 \* failures the device has produced so far
    field,                  \* SpecConv: the field text handed over last
    fnName,                 \* SpecConv: the helper it was handed to
    idx,                    \* SpecConv: fields handed over so far
    convOut,                \* SpecConv: the samples sent for that field
    convLog,                \* SpecConv: the errors logged for that field
    rTotal,                 \* SpecRace: totalOSPFErrors
    rPc,                    \* SpecRace: position of each overlapping Get call
    rTmp,                   \* SpecRace: the counter value each call has loaded
    rErrs,                  \* SpecRace: len(errors) of each call
    rRet,                   \* SpecRace: the count each call returned
    rOrder,                 \* SpecRace: the returned counts, as calls finish
    stKind,                 \* SpecState: the state field mapped last
    stText,                 \* SpecState: its text
    stOut,                  \* SpecState: the values sent for it
    arCfg,                  \* SpecArity: the configured description / metric keys
    arMetric,               \* SpecArity: the metric emitted last
    arNames,                \* SpecArity: the label names of its Desc
    arValues,               \* SpecArity: the label values passed with it
    rbIn,                   \* SpecRib: the decoded instance and summary replies
    rbRuns,                 \* SpecRib: the sample set of each mapping so far
    pvStage,                \* SpecPeer: position in the mapping of the neighbor reply
    pvIn,                   \* SpecPeer: the bgp-peer entries of the neighbor reply
    pvOut,                  \* SpecPeer: labels sent by processBGPNetconfReply
    pvNb,                   \* SpecPeer: labels sent by processBGPNeighborNetconfReply
    inPc,                   \* SpecInst: position of Get around its range loop
    inReply,                \* SpecInst: the instance reply: whether it decodes, its names
    inLeft,                 \* SpecInst: keys of routeInstanceNames not yet visited
    inLog,                  \* SpecInst: the per-instance RPCs issued, in order
    tyStage,                \* SpecTypes: position in the mapping of the peers
    tyKeys,                 \* SpecTypes: the configured BGP type keys
    tyPeers,                \* SpecTypes: description and state of each bgp-peer
    tyOut,                  \* SpecTypes: the peer_types_up samples sent
    clStage,                \* SpecPrecl: position in the mapping of one interface
    clIn,                   \* SpecPrecl: the traffic-class texts of its per-class statistics
    clOut,                  \* SpecPrecl: the class label values sent, in order
    lgStage,                \* SpecLag: position in the mapping of one logical interface
    lgIn,                   \* SpecLag: its lag-bundle and transit-traffic-statistics
    lgOut,                  \* SpecLag: the field texts its traffic samples are made from
    dkStage,                \* SpecDescr: position in the mapping of one interface
    dkIn,                   \* SpecDescr: the description and the configured keys
    dkOut,                  \* SpecDescr: the labels and samples made, and whether it panicked
    rqStage,                \* SpecReq: position of the handler
    rqIn,                   \* SpecReq: the request parameters and the allowed_targets lists
    rqStatus,               \* SpecReq: the HTTP status written, 0 while none is
    rqExporters,            \* SpecReq: exporters created for the request
    lvPc,                   \* SpecLive: position of Exporter.Collect
    lvEnabled,              \* SpecLive: e.Collectors
    lvSpawned,              \* SpecLive: collectors whose worker was started
    lvWg,                   \* SpecLive: the WaitGroup counter
    lvW,                    \* SpecLive: position of each worker
    lvAt,                   \* SpecLive: steps of its Get call a worker has passed
    lvTodo,                 \* SpecLive: samples of the current reply still to send
    lvQueue,                \* SpecLive: senders waiting at the channel, oldest first
    tgPc,                   \* SpecTarget: position of each request
    tgReq,                  \* SpecTarget: the target and config parameters of each request
    tgExp,                  \* SpecTarget: e.config of each request's Exporter
    tgUsed,                 \* SpecTarget: what each request's collector dialed with
    sshTarget,              \* SpecTarget: the package-level sshTarget
    sshClientConfig,        \* SpecTarget: the package-level sshClientConfig
    opStage,                \* SpecOptics: idle, received or sent
    opIn,                   \* SpecOptics: the alarm fields of the interface
    opOut                   \* SpecOptics: the value sent for each alarm gauge

schedVars == <<scrapeNo, junosTotalScrapeCount, epc, enabled, spawned, wg>>
workVars  == <<pc, session, errs, total, retTotal, todo, bgp>>
histVars  == <<rpcs, feat, dials, closes, dialFailed, rpcFailed, decFailed,
               base, faults>>
outVars   == <<outScrapes, outDur, outErrTotal, outUp>>
convVars  == <<field, fnName, idx, convOut, convLog>>
raceVars  == <<rTotal, rPc, rTmp, rErrs, rRet, rOrder>>
mainVars  == <<schedVars, workVars, histVars, outVars>>
\* the variables of the other specifications, and what each of these leaves
\* unchanged
stateVars == <<stKind, stText, stOut>>
arityVars == <<arCfg, arMetric, arNames, arValues>>
ribVars   == <<rbIn, rbRuns>>
peerVars  == <<pvStage, pvIn, pvOut, pvNb>>
instVars  == <<inPc, inReply, inLeft, inLog>>
typeVars  == <<tyStage, tyKeys, tyPeers, tyOut>>
preclVars == <<clStage, clIn, clOut>>
lagVars == <<lgStage, lgIn, lgOut>>
descrVars == <<dkStage, dkIn, dkOut>>
reqVars == <<rqStage, rqIn, rqStatus, rqExporters>>
liveVars == <<lvPc, lvEnabled, lvSpawned, lvWg, lvW, lvAt, lvTodo, lvQueue>>
targetVars == <<tgPc, tgReq, tgExp, tgUsed, sshTarget, sshClientConfig>>
opticsVars == <<opStage, opIn, opOut>>
auxVars ==
    <<convVars, raceVars, stateVars, arityVars, ribVars, peerVars,
      instVars, typeVars, preclVars, lagVars, descrVars, reqVars,
      liveVars, targetVars, opticsVars>>
convFrame ==
    <<mainVars, raceVars, stateVars, arityVars, ribVars, peerVars,
      instVars, typeVars, preclVars, lagVars, descrVars, reqVars,
      liveVars, targetVars, opticsVars>>
raceFrame ==
    <<mainVars, convVars, stateVars, arityVars, ribVars, peerVars,
      instVars, typeVars, preclVars, lagVars, descrVars, reqVars,
      liveVars, targetVars, opticsVars>>
stateFrame ==
    <<mainVars, convVars, raceVars, arityVars, ribVars, peerVars,
      instVars, typeVars, preclVars, lagVars, descrVars, reqVars,
      liveVars, targetVars, opticsVars>>
arityFrame ==
    <<mainVars, convVars, raceVars, stateVars, ribVars, peerVars,
      instVars, typeVars, preclVars, lagVars, descrVars, reqVars,
      liveVars, targetVars, opticsVars>>
ribFrame ==
    <<mainVars, convVars, raceVars, stateVars, arityVars, peerVars,
      instVars, typeVars, preclVars, lagVars, descrVars, reqVars,
      liveVars, targetVars, opticsVars>>
peerFrame ==
    <<mainVars, convVars, raceVars, stateVars, arityVars, ribVars,
      instVars, typeVars, preclVars, lagVars, descrVars, reqVars,
      liveVars, targetVars, opticsVars>>
instFrame ==
    <<mainVars, convVars, raceVars, stateVars, arityVars, ribVars,
      peerVars, typeVars, preclVars, lagVars, descrVars, reqVars,
      liveVars, targetVars, opticsVars>>
typeFrame ==
    <<mainVars, convVars, raceVars, stateVars, arityVars, ribVars,
      peerVars, instVars, preclVars, lagVars, descrVars, reqVars,
      liveVars, targetVars, opticsVars>>
preclFrame ==
    <<mainVars, convVars, raceVars, stateVars, arityVars, ribVars,
      peerVars, instVars, typeVars, lagVars, descrVars, reqVars,
      liveVars, targetVars, opticsVars>>
lagFrame ==
    <<mainVars, convVars, raceVars, stateVars, arityVars, ribVars,
      peerVars, instVars, typeVars, preclVars, descrVars, reqVars,
      liveVars, targetVars, opticsVars>>
descrFrame ==
    <<mainVars, convVars, raceVars, stateVars, arityVars, ribVars,
      peerVars, instVars, typeVars, preclVars, lagVars, reqVars,
      liveVars, targetVars, opticsVars>>
reqFrame ==
    <<mainVars, convVars, raceVars, stateVars, arityVars, ribVars,
      peerVars, instVars, typeVars, preclVars, lagVars, descrVars,
      liveVars, targetVars, opticsVars>>
liveFrame ==
    <<mainVars, convVars, raceVars, stateVars, arityVars, ribVars,
      peerVars, instVars, typeVars, preclVars, lagVars, descrVars,
      reqVars, targetVars, opticsVars>>
targetFrame ==
    <<mainVars, convVars, raceVars, stateVars, arityVars, ribVars,
      peerVars, instVars, typeVars, preclVars, lagVars, descrVars,
      reqVars, liveVars, opticsVars>>
opticsFrame ==
    <<mainVars, convVars, raceVars, stateVars, arityVars, ribVars,
      peerVars, instVars, typeVars, preclVars, lagVars, descrVars,
      reqVars, liveVars, targetVars>>
vars      == <<mainVars, auxVars>>

\* The BGP collector's locals: the decoded neighbor reply (well-formed?,
\* number of bgp-peer entries), the names of routeInstanceNames the range
\* loop still queries, replyBgpSummaryInstance, and the instances already
\* mapped.
BgpInit == [nbOK |-> TRUE, peers |-> 0, query |-> {},
            vrf |-> [n \in InstanceNames |-> "none"], seen |-> {}]

AllZero == [c \in Collectors |-> 0]
AllNone == [c \in Collectors |-> <<>>]
AllFalse == [c \in Collectors |-> FALSE]

\* -------------------------------------------------------------------- Init
ConvIdle ==
    /\ field = <<>>
    /\ fnName = "none"
    /\ idx = 0
    /\ convOut = <<>>
    /\ convLog = 0

Calls == 1..MaxOverlap

RaceIdle ==
    /\ rTotal = 0
    /\ rPc = [g \in Calls |-> "dial"]
    /\ rTmp = [g \in Calls |-> 0]
    /\ rErrs = [g \in Calls |-> 0]
    /\ rRet = [g \in Calls |-> 0]
    /\ rOrder = <<>>

StateIdle ==
    /\ stKind = "none"
    /\ stText = <<>>
    /\ stOut = <<>>

NoKeys == [descrKeys |-> <<>>, metricKeys |-> <<>>]

ArityIdle ==
    /\ arCfg = NoKeys
    /\ arMetric = "none"
    /\ arNames = <<>>
    /\ arValues = <<>>

RibIdle ==
    /\ rbIn = [routeInstances |-> <<>>, summary |-> <<>>]
    /\ rbRuns = <<>>

PeerIdle ==
    /\ pvStage = "idle"
    /\ pvIn = <<>>
    /\ pvOut = <<>>
    /\ pvNb = <<>>

NoInstanceReply == [ok |-> TRUE, names |-> <<>>]

InstIdle ==
    /\ inPc = "idle"
    /\ inReply = NoInstanceReply
    /\ inLeft = {}
    /\ inLog = <<>>

TypeIdle ==
    /\ tyStage = "idle"
    /\ tyKeys = <<>>
    /\ tyPeers = <<>>
    /\ tyOut = {}

PreclIdle ==
    /\ clStage = "idle"
    /\ clIn = <<>>
    /\ clOut = <<>>

NoTraffic == [InputBytes |-> <<>>, OutputBytes |-> <<>>,
              InputBps |-> <<>>, OutputBps |-> <<>>]

LagIdle ==
    /\ lgStage = "idle"
    /\ lgIn = [lag |-> NoTraffic, transit |-> NoTraffic]
    /\ lgOut = NoTraffic

NoLookup == [panic |-> FALSE, labels |-> <<>>, metrics |-> <<>>]

DescrIdle ==
    /\ dkStage = "idle"
    /\ dkIn = [text |-> "empty", members |-> <<>>, descrKeys |-> <<>>,
               metricKeys |-> <<>>]
    /\ dkOut = NoLookup

ReqIdle ==
    /\ rqStage = "idle"
    /\ rqIn = [config |-> "", target |-> "", allowed |-> <<>>, global |-> <<>>]
    /\ rqStatus = 0
    /\ rqExporters = 0

LiveIdle ==
    /\ lvPc = "idle"
    /\ lvEnabled = {}
    /\ lvSpawned = {}
    /\ lvWg = 0
    /\ lvW = [c \in Collectors |-> "off"]
    /\ lvAt = [c \in Collectors |-> 0]
    /\ lvTodo = [c \in Collectors |-> 0]
    /\ lvQueue = <<>>

TargetIdle ==
    /\ tgPc = [r \in 1..MaxRequests |-> "idle"]
    /\ tgReq = [r \in 1..MaxRequests |-> [target |-> "", config |-> ""]]
    /\ tgExp = [r \in 1..MaxRequests |->
                 [SSHClientConfig |-> "", SSHTarget |-> "", BGPTypeKeys |-> ""]]
    /\ tgUsed = [r \in 1..MaxRequests |-> [target |-> "", ssh |-> "", keys |-> ""]]
    /\ sshTarget = ""
    /\ sshClientConfig = ""

OpticsIdle ==
    /\ opStage = "idle"
    /\ opIn = [f \in {"ModuleTemperatureHighAlarm", "ModuleTemperatureLowAlarm",
                       "ModuleTemperatureHighWarn", "ModuleTemperatureLowWarn",
                       "ModuleVoltageHighAlarm", "ModuleVoltageLowAlarm",
                       "ModuleVoltageHighWarn", "ModuleVoltageLowWarn"} |-> ""]
    /\ opOut = opIn

SchedIdle ==
    /\ scrapeNo = 0
    /\ junosTotalScrapeCount = 0
    /\ epc = "idle"
    /\ enabled = {}
    /\ spawned = {}
    /\ wg = 0
    /\ pc = [c \in Collectors |-> "idle"]
    /\ session = [c \in Collectors |-> "none"]
    /\ errs = AllZero
    /\ total = AllZero
    /\ retTotal = AllZero
    /\ todo = AllZero
    /\ bgp = BgpInit
    /\ rpcs = AllZero
    /\ feat = AllZero
    /\ dials = 0
    /\ closes = AllZero
    /\ dialFailed = AllFalse
    /\ rpcFailed = AllFalse
    /\ decFailed = AllFalse
    /\ base = AllZero
    /\ faults = 0
    /\ outScrapes = <<>>
    /\ outDur = AllZero
    /\ outErrTotal = AllNone
    /\ outUp = AllNone

Init == SchedIdle /\ ConvIdle /\ RaceIdle /\ StateIdle /\ ArityIdle /\ RibIdle /\ PeerIdle /\ InstIdle
        /\ TypeIdle /\ PreclIdle /\ LagIdle /\ DescrIdle /\ ReqIdle /\ LiveIdle /\ TargetIdle /\ OpticsIdle

\* ------------------------------------------------------- the HTTP handler
\* enabledCollectors: the registered collectors the configuration names
EnabledSets == {en \in SUBSET Collectors : Cardinality(en) <= MaxEnabled}

\* handler: one request is served at a time here; the handler builds the
\* list of enabled collectors, a fresh Exporter, and Gather calls Collect.
StartScrape ==
    /\ epc \in {"idle", "returned"}
    /\ scrapeNo < MaxScrapes
    /\ scrapeNo' = scrapeNo + 1
    /\ \E en \in EnabledSets : enabled' = en
    /\ epc' = "inc"
    /\ spawned' = {}
    /\ wg' = 0
    /\ pc' = [c \in Collectors |-> "idle"]
    /\ session' = [c \in Collectors |-> "none"]
    /\ retTotal' = AllZero
    /\ todo' = AllZero
    /\ bgp' = BgpInit
    /\ rpcs' = AllZero
    /\ feat' = AllZero
    /\ dials' = 0
    /\ closes' = AllZero
    /\ dialFailed' = AllFalse
    /\ rpcFailed' = AllFalse
    /\ decFailed' = AllFalse
    /\ base' = total
    /\ outScrapes' = <<>>
    /\ outDur' = AllZero
    /\ outErrTotal' = AllNone
    /\ outUp' = AllNone
    /\ errs' = AllZero
    /\ UNCHANGED <<junosTotalScrapeCount, total, faults, auxVars>>

\* -------------------------------------------------------- Exporter.Collect
\* junosTotalScrapeCount++
CollectInc ==
    /\ epc = "inc"
    /\ junosTotalScrapeCount' = junosTotalScrapeCount + 1
    /\ epc' = "sendTotal"
    /\ UNCHANGED <<scrapeNo, enabled, spawned, wg, workVars, histVars,
                   outVars, auxVars>>

\* ch <- ScrapesTotal
CollectSendTotal ==
    /\ epc = "sendTotal"
    /\ outScrapes' = Append(outScrapes, junosTotalScrapeCount)
    /\ epc' = "spawn"
    /\ UNCHANGED <<scrapeNo, junosTotalScrapeCount, enabled, spawned, wg,
                   workVars, histVars, outDur, outErrTotal, outUp, auxVars>>

\* The next collector of e.Collectors the range loop reaches.
NextToSpawn ==
    LET left == {i \in 1..Len(CollectorOrder) :
                    /\ CollectorOrder[i] \in enabled
                    /\ CollectorOrder[i] \notin spawned}
    IN  CollectorOrder[CHOOSE i \in left : \A j \in left : i <= j]

\* (variant) the workers are started before scrapes_total is sent
CollectSpawnEarly ==
    /\ epc \in {"sendTotal", "spawn"}
    /\ spawned # enabled
    /\ LET c == NextToSpawn
       IN  /\ wg' = wg + 1
           /\ spawned' = spawned \cup {c}
           /\ pc' = [pc EXCEPT ![c] = "start"]
           /\ epc' = IF spawned \cup {c} = enabled THEN "wait" ELSE "spawn"
    /\ UNCHANGED <<scrapeNo, junosTotalScrapeCount, enabled, session,
                   errs, total, retTotal, todo, bgp, histVars, outVars,
                   auxVars>>

\* wg.Add(1); go e.runCollector(ch, collector, wg); after the last
\* collector of the range loop Collect is at wg.Wait()
CollectSpawn ==
    /\ epc = "spawn"
    /\ spawned # enabled
    /\ LET c == NextToSpawn
       IN  /\ wg' = wg + 1
           /\ spawned' = spawned \cup {c}
           /\ pc' = [pc EXCEPT ![c] = "start"]
           /\ epc' = IF spawned \cup {c} = enabled THEN "wait" ELSE "spawn"
    /\ UNCHANGED <<scrapeNo, junosTotalScrapeCount, enabled, session,
                   errs, total, retTotal, todo, bgp, histVars, outVars,
                   auxVars>>

\* no collector is enabled: the range loop has nothing to start
CollectLoopEnd ==
    /\ epc = "spawn"
    /\ enabled = {}
    /\ epc' = "wait"
    /\ UNCHANGED <<scrapeNo, junosTotalScrapeCount, enabled, spawned, wg,
                   workVars, histVars, outVars, auxVars>>

\* (variant) Wait returns although one worker has not called Done
WaitReturnsEarly == wg <= 1

\* wg.Wait() returns when the counter is zero
WaitReturns == wg = 0

CollectWait ==
    /\ epc = "wait"
    /\ WaitReturns
    /\ epc' = "returned"
    /\ UNCHANGED <<scrapeNo, junosTotalScrapeCount, enabled, spawned, wg,
                   workVars, histVars, outVars, auxVars>>

\* ------------------------------------------------------ collector.Get
\* The replies an RPC can return: malformed XML, or well-formed XML with a
\* number of entries.
Replies ==
    {[ok |-> FALSE, items |-> 0]} \cup [ok : {TRUE}, items : 0..MaxItems]

\* The outcome of the local computation of one step: where the worker goes
\* on, how many errors it recorded, whether a decode / an RPC failed, and
\* the entries the next loop has to map.
Eff(next, nerr, dec, rpc, n) ==
    [pc |-> next, addErr |-> nerr, dec |-> dec, rpc |-> rpc, todo |-> n]

Go(next)        == Eff(next, 0, FALSE, FALSE, 0)
Loop(next, n)   == Eff(next, 0, FALSE, FALSE, n)

\* (variant) errors is a package-level list that is never emptied: it
\* holds every error the collector ever recorded
StaleErrors(c) == total[c]

\* errors := []error{}
NewErrors(c) == 0

FirstStage(c) ==
    CASE c = "interface" -> "exec"
      [] c = "ipsec"     -> "exec1"
      [] c = "bgp"       -> "execSummary"

\* (variant) the failed Exec is counted and recorded twice
RpcFailedTwice == Eff("ret", 2, FALSE, TRUE, 0)

\* Exec returned an error:
\*   total<X>Errors++ ; errors = append(errors, ...) ; return errors, total
RpcFailed == Eff("ret", 1, FALSE, TRUE, 0)

\* a process<X>NetconfReply returned a decode error:
\*   total<X>Errors++ ; errors = append(errors, err) ; go on at next
DecodeFailed(next) == Eff(next, 1, TRUE, FALSE, 0)

\* two outcomes in a row: the errors add up, the later one says where to go
Then(e1, e2) ==
    [pc |-> e2.pc, addErr |-> e1.addErr + e2.addErr, dec |-> e1.dec \/ e2.dec,
     rpc |-> e1.rpc \/ e2.rpc, todo |-> e2.todo]

\* (variant) the counter starts from zero in every recording step
RecordErrorsReset(c, e) ==
    /\ errs' = [errs EXCEPT ![c] = @ + e.addErr]
    /\ total' = [total EXCEPT ![c] = e.addErr]

\* (variant) one errors list and one counter shared by all collectors
RecordErrorsShared(c, e) ==
    /\ errs' = [d \in Collectors |-> errs[d] + e.addErr]
    /\ total' = [d \in Collectors |-> total[d] + e.addErr]

\* total<X>Errors++ and append(errors, ...), once per recorded error
RecordErrors(c, e) ==
    /\ errs' = [errs EXCEPT ![c] = @ + e.addErr]
    /\ total' = [total EXCEPT ![c] = @ + e.addErr]

\* the device produces k more failures
Fault(k) ==
    /\ faults + k <= MaxFaults
    /\ faults' = faults + k

Bad(ok) == IF ok THEN 0 ELSE 1

\* (variant) a Get that returns on an Exec error leaves its session open
ApplyLeak(c, e, k) ==
    /\ Fault(k)
    /\ RecordErrors(c, e)
    /\ decFailed' = [decFailed EXCEPT ![c] = @ \/ e.dec]
    /\ rpcFailed' = [rpcFailed EXCEPT ![c] = @ \/ e.rpc]
    /\ todo' = [todo EXCEPT ![c] = e.todo]
    /\ pc' = [pc EXCEPT ![c] = e.pc]
    /\ IF e.pc = "ret"
       THEN /\ retTotal' = [retTotal EXCEPT ![c] = total[c] + e.addErr]
            /\ IF e.rpc
               THEN UNCHANGED <<session, closes>>
               ELSE /\ session' = [session EXCEPT ![c] = "closed"]
                    /\ closes' = [closes EXCEPT ![c] = @ + 1]
       ELSE UNCHANGED <<retTotal, session, closes>>

\* The worker takes the outcome e, which k failures of the device led to.
\* When Get returns, the deferred s.Close() runs and the returned count is
\* the counter's value then.
Apply(c, e, k) ==
    /\ Fault(k)
    /\ RecordErrors(c, e)
    /\ decFailed' = [decFailed EXCEPT ![c] = @ \/ e.dec]
    /\ rpcFailed' = [rpcFailed EXCEPT ![c] = @ \/ e.rpc]
    /\ todo' = [todo EXCEPT ![c] = e.todo]
    /\ pc' = [pc EXCEPT ![c] = e.pc]
    /\ IF e.pc = "ret"
       THEN /\ retTotal' = [retTotal EXCEPT ![c] = total[c] + e.addErr]
            /\ session' = [session EXCEPT ![c] = "closed"]
            /\ closes' = [closes EXCEPT ![c] = @ + 1]
       ELSE UNCHANGED <<retTotal, session, closes>>

\* s, err := netconf.DialSSH(conf.SSHTarget, conf.SSHClientConfig)
DialOK(c) ==
    /\ session' = [session EXCEPT ![c] = "open"]
    /\ errs' = [errs EXCEPT ![c] = NewErrors(c)]
    /\ pc' = [pc EXCEPT ![c] = FirstStage(c)]
    /\ UNCHANGED <<total, retTotal, dialFailed, faults>>

\* (variant) the dial failure is recorded twice
DialErrorTwice(c) ==
    /\ Fault(1)
    /\ errs' = [errs EXCEPT ![c] = NewErrors(c) + 2]
    /\ total' = [total EXCEPT ![c] = @ + 2]
    /\ retTotal' = [retTotal EXCEPT ![c] = total[c] + 2]
    /\ dialFailed' = [dialFailed EXCEPT ![c] = TRUE]
    /\ pc' = [pc EXCEPT ![c] = "ret"]
    /\ UNCHANGED session

\* DialSSH returned an error:
\*   total<X>Errors++ ; errors = append(errors, ...) ; return errors, total
DialError(c) ==
    /\ Fault(1)
    /\ errs' = [errs EXCEPT ![c] = NewErrors(c) + 1]
    /\ total' = [total EXCEPT ![c] = @ + 1]
    /\ retTotal' = [retTotal EXCEPT ![c] = total[c] + 1]
    /\ dialFailed' = [dialFailed EXCEPT ![c] = TRUE]
    /\ pc' = [pc EXCEPT ![c] = "ret"]
    /\ UNCHANGED session

\* (variant) a worker dials only when no other worker holds a session
DialShared(c) ==
    /\ pc[c] = "start"
    /\ dials' = IF \E d \in Collectors : session[d] = "open"
                THEN dials ELSE dials + 1
    /\ base' = [base EXCEPT ![c] = total[c]]
    /\ (DialOK(c) \/ DialError(c))
    /\ UNCHANGED <<schedVars, todo, bgp, rpcs, feat, closes, rpcFailed,
                   decFailed, outVars, auxVars>>

Dial(c) ==
    /\ pc[c] = "start"
    /\ dials' = dials + 1
    /\ base' = [base EXCEPT ![c] = total[c]]
    /\ (DialOK(c) \/ DialError(c))
    /\ UNCHANGED <<schedVars, todo, bgp, rpcs, feat, closes, rpcFailed,
                   decFailed, outVars, auxVars>>

\* one s.Exec(...) is issued
IssueRPC(c) ==
    /\ session[c] = "open"
    /\ rpcs' = [rpcs EXCEPT ![c] = @ + 1]

\* one sample is sent on the channel
SendFeature(c) == feat' = [feat EXCEPT ![c] = @ + 1]

\* one entry of the current loop mapped and sent; after the last one the
\* worker goes on with the outcome after
EmitLoop(c, at, after) ==
    /\ pc[c] = at
    /\ todo[c] > 0
    /\ SendFeature(c)
    /\ Apply(c, IF todo[c] = 1 THEN after ELSE Loop(at, todo[c] - 1), 0)
    /\ UNCHANGED <<schedVars, bgp, rpcs, dials, dialFailed, base, outVars,
                   auxVars>>

\* ---- InterfaceCollector.Get (the one-RPC shape)
\* processIfaceNetconfReply(reply, ...): the decode, then the entries
IfaceProcess(r) ==
    IF ~r.ok THEN DecodeFailed("ret")
    ELSE IF r.items = 0 THEN Go("ret") ELSE Loop("emit", r.items)

IfaceExec ==
    /\ pc["interface"] = "exec"
    /\ IssueRPC("interface")
    /\ \/ Apply("interface", RpcFailed, 1)
       \/ \E r \in Replies : Apply("interface", IfaceProcess(r), Bad(r.ok))
    /\ UNCHANGED <<schedVars, bgp, feat, dials, dialFailed, base, outVars,
                   auxVars>>

IfaceEmit == EmitLoop("interface", "emit", Go("ret"))

\* strconv.Atoi of the speed text fails: processIfaceNetconfReply returns
\* the error instead of mapping the entry
IfaceSpeedError ==
    /\ pc["interface"] = "emit"
    /\ todo["interface"] > 0
    /\ Apply("interface", Eff("ret", 1, FALSE, FALSE, 0), 1)
    /\ UNCHANGED <<schedVars, bgp, rpcs, feat, dials, dialFailed, base,
                   outVars, auxVars>>

\* ---- IpsecCollector.Get (two RPCs, a decode after each)
\* processIpsecInactiveNetconfReply, then on to the second Exec
IpsecProcessInactive(r) ==
    IF ~r.ok THEN DecodeFailed("exec2")
    ELSE IF r.items = 0 THEN Go("exec2") ELSE Loop("emit1", r.items)

\* processIpsecActiveNetconfReply, then return
IpsecProcessActive(r) ==
    IF ~r.ok THEN DecodeFailed("ret")
    ELSE IF r.items = 0 THEN Go("ret") ELSE Loop("emit2", r.items)

IpsecExecInactive ==
    /\ pc["ipsec"] = "exec1"
    /\ IssueRPC("ipsec")
    /\ \/ Apply("ipsec", RpcFailed, 1)
       \/ \E r \in Replies : Apply("ipsec", IpsecProcessInactive(r), Bad(r.ok))
    /\ UNCHANGED <<schedVars, bgp, feat, dials, dialFailed, base, outVars,
                   auxVars>>

IpsecEmitInactive == EmitLoop("ipsec", "emit1", Go("exec2"))

IpsecExecActive ==
    /\ pc["ipsec"] = "exec2"
    /\ IssueRPC("ipsec")
    /\ \/ Apply("ipsec", RpcFailed, 1)
       \/ \E r \in Replies : Apply("ipsec", IpsecProcessActive(r), Bad(r.ok))
    /\ UNCHANGED <<schedVars, bgp, feat, dials, dialFailed, base, outVars,
                   auxVars>>

IpsecEmitActive == EmitLoop("ipsec", "emit2", Go("ret"))

\* ---- BGPCollector.Get
\* processBGPNeighborNetconfReply(replyNeighbor, ...): the decode, then the
\* bgp-peer entries
BgpNeighborPart(nbOK, peers) ==
    IF ~nbOK THEN DecodeFailed("ret")
    ELSE IF peers = 0 THEN Go("ret") ELSE Loop("nbrEmit", peers)

\* processBGPNetconfReply returned an error: Get records it and goes on
\* with processBGPNeighborNetconfReply
BgpProcessFailed(nbOK, peers) ==
    Then(DecodeFailed("nbrDecode"), BgpNeighborPart(nbOK, peers))

\* processBGPNetconfReply after its per-instance loop: the bgp-peer entries,
\* then processBGPNeighborNetconfReply
BgpPeersPart(nbOK, peers) ==
    IF peers = 0 THEN BgpNeighborPart(nbOK, peers)
    ELSE Loop("procPeers", peers)

\* processBGPNetconfReply: the two xml.Unmarshal calls at its head, then
\* the per-instance loop when there is a per-instance reply
BgpProcessHead(nbOK, sumOK, peers, hasInst) ==
    IF ~nbOK \/ ~sumOK THEN BgpProcessFailed(nbOK, peers)
    ELSE IF hasInst THEN Go("procInst")
    ELSE BgpPeersPart(nbOK, peers)

\* getBgpPeerInterface(replyNeighbor): an error is recorded, Get goes on
BgpPeerInterface(nbOK) ==
    IF nbOK THEN Go("instNames") ELSE DecodeFailed("instNames")

\* getInstanceNameToRibName(replyRouteInstance): the same
BgpInstanceNames(instOK) ==
    IF instOK THEN Go("perInst") ELSE DecodeFailed("perInst")

\* the routing instances the range loop queries: all but the reserved ones
\* (the filter of the loop body, applied to routeInstanceNames at once)
InstancesToQuery(names) == {n \in names : ~IsReservedInstance(n)}

bgpFrame == <<schedVars, dials, dialFailed, base, outVars, auxVars>>

\* the locals end with the call
BgpLocals(e, b) == IF e.pc = "ret" THEN BgpInit ELSE b

\* (variant) the neighbor RPC is left out: after the summary RPC the
\* instance RPC
BgpExecSummaryOnly ==
    /\ pc["bgp"] = "execSummary"
    /\ IssueRPC("bgp")
    /\ \/ Apply("bgp", RpcFailed, 1)
       \/ Apply("bgp", Go("execInstance"), 0)
    /\ UNCHANGED <<bgpFrame, bgp, feat>>

\* reply, err := s.Exec(<get-bgp-summary-information/>)
BgpExecSummary ==
    /\ pc["bgp"] = "execSummary"
    /\ IssueRPC("bgp")
    /\ \/ Apply("bgp", RpcFailed, 1)
       \/ Apply("bgp", Go("execNeighbor"), 0)
    /\ UNCHANGED <<bgpFrame, bgp, feat>>

\* replyNeighbor, err := s.Exec(<get-bgp-neighbor-information/>)
BgpExecNeighbor ==
    /\ pc["bgp"] = "execNeighbor"
    /\ IssueRPC("bgp")
    /\ \/ Apply("bgp", RpcFailed, 1)
       \/ Apply("bgp", Go("execInstance"), 0)
    /\ UNCHANGED <<bgpFrame, bgp, feat>>

\* replyRouteInstance, err := s.Exec(<get-instance-information/>), then
\* getBgpPeerInterface and getInstanceNameToRibName, and with no instance
\* to query the head of processBGPNetconfReply
BgpExecInstance ==
    /\ pc["bgp"] = "execInstance"
    /\ IssueRPC("bgp")
    /\ \/ /\ Apply("bgp", RpcFailed, 1)
          /\ UNCHANGED bgp
       \/ \E nb \in Replies, instOK \in BOOLEAN, ns \in SUBSET InstanceNames,
             sumOK \in BOOLEAN :
            LET names == IF instOK THEN ns ELSE {}
                query == InstancesToQuery(names)
                first == Then(BgpPeerInterface(nb.ok), BgpInstanceNames(instOK))
                rest  == IF query # {}
                         THEN Go("perInst")
                         ELSE BgpProcessHead(nb.ok, sumOK, nb.items, FALSE)
                e     == Then(first, rest)
                read  == query = {} /\ nb.ok
            IN  /\ read \/ sumOK
                /\ bgp' = BgpLocals(e, [bgp EXCEPT !.nbOK = nb.ok,
                                          !.peers = nb.items, !.query = query])
                /\ Apply("bgp", e, Bad(nb.ok) + Bad(instOK) + Bad(sumOK))
    /\ UNCHANGED <<bgpFrame, feat>>

\* replyBgpSummaryVrf, err := s.Exec(... <instance>%s</instance> ...) for
\* one more instance of the range loop; after the last one the head of
\* processBGPNetconfReply
BgpExecPerInstance ==
    /\ pc["bgp"] = "perInst"
    /\ IssueRPC("bgp")
    /\ \E n \in bgp.query :
        \/ /\ Apply("bgp", RpcFailed, 1)
           /\ bgp' = BgpInit
        \/ \E q \in {"ok", "bad"}, sumOK \in BOOLEAN :
            LET e == IF bgp.query = {n}
                     THEN BgpProcessHead(bgp.nbOK, sumOK, bgp.peers, TRUE)
                     ELSE Go("perInst")
                read == bgp.query = {n} /\ bgp.nbOK
            IN  /\ read \/ sumOK
                /\ bgp' = BgpLocals(e, [bgp EXCEPT !.query = @ \ {n},
                                                   !.vrf[n] = q])
                /\ Apply("bgp", e, Bad(q = "ok") + Bad(sumOK))
    /\ UNCHANGED <<bgpFrame, feat>>

\* the per-instance replies processBGPNetconfReply still has to map
InstancesToMap == {n \in InstanceNames : bgp.vrf[n] # "none"} \ bgp.seen

\* processBGPNetconfReply: the next per-instance reply does not decode
BgpProcessInstanceError ==
    /\ pc["bgp"] = "procInst"
    /\ \E n \in InstancesToMap :
        /\ bgp.vrf[n] = "bad"
        /\ LET e == BgpProcessFailed(bgp.nbOK, bgp.peers)
           IN  /\ Apply("bgp", e, 0)
               /\ bgp' = BgpLocals(e, bgp)
    /\ UNCHANGED <<bgpFrame, rpcs, feat>>

\* processBGPNetconfReply: the next per-instance reply decoded and mapped;
\* after the last one the bgp-peer entries
BgpProcessInstance ==
    /\ pc["bgp"] = "procInst"
    /\ \E n \in InstancesToMap :
        /\ bgp.vrf[n] = "ok"
        /\ SendFeature("bgp")
        /\ LET e == IF InstancesToMap = {n}
                    THEN BgpPeersPart(bgp.nbOK, bgp.peers)
                    ELSE Go("procInst")
           IN  /\ Apply("bgp", e, 0)
               /\ bgp' = BgpLocals(e, [bgp EXCEPT !.seen = @ \cup {n}])
    /\ UNCHANGED <<bgpFrame, rpcs>>

\* one bgp-peer mapped and sent; after the last one the outcome after
BgpEmitLoop(at, after) ==
    /\ pc["bgp"] = at
    /\ todo["bgp"] > 0
    /\ SendFeature("bgp")
    /\ LET e == IF todo["bgp"] = 1 THEN after ELSE Loop(at, todo["bgp"] - 1)
       IN  /\ Apply("bgp", e, 0)
           /\ bgp' = BgpLocals(e, bgp)
    /\ UNCHANGED <<bgpFrame, rpcs>>

\* processBGPNetconfReply: the bgp-peer entries
BgpProcessPeers ==
    BgpEmitLoop("procPeers", BgpNeighborPart(bgp.nbOK, bgp.peers))

\* processBGPNeighborNetconfReply: the bgp-peer entries
BgpNeighborEmit == BgpEmitLoop("nbrEmit", Go("ret"))

\* ------------------------------------------------------------ runCollector
\* (variant) the duration is only sent for a Get without errors
SendDurationOnSuccess(c) ==
    /\ pc[c] = "ret"
    /\ outDur' = [outDur EXCEPT ![c] = IF errs[c] > 0 THEN @ ELSE @ + 1]
    /\ pc' = [pc EXCEPT ![c] = "sendErrTotal"]
    /\ session' = [session EXCEPT ![c] = "none"]
    /\ todo' = [todo EXCEPT ![c] = 0]
    /\ rpcs' = [rpcs EXCEPT ![c] = 0]
    /\ feat' = [feat EXCEPT ![c] = 0]
    /\ closes' = [closes EXCEPT ![c] = 0]
    /\ dialFailed' = [dialFailed EXCEPT ![c] = FALSE]
    /\ rpcFailed' = [rpcFailed EXCEPT ![c] = FALSE]
    /\ decFailed' = [decFailed EXCEPT ![c] = FALSE]
    /\ UNCHANGED <<schedVars, errs, total, retTotal, bgp, dials, base,
                   faults, outScrapes, outErrTotal, outUp, auxVars>>

\* errors, totalErrors := collector.Get(ch, e.config) has returned;
\* ch <- ScrapeDuration.  The locals of the Get call are gone.
SendDuration(c) ==
    /\ pc[c] = "ret"
    /\ outDur' = [outDur EXCEPT ![c] = @ + 1]
    /\ pc' = [pc EXCEPT ![c] = "sendErrTotal"]
    /\ session' = [session EXCEPT ![c] = "none"]
    /\ todo' = [todo EXCEPT ![c] = 0]
    /\ rpcs' = [rpcs EXCEPT ![c] = 0]
    /\ feat' = [feat EXCEPT ![c] = 0]
    /\ closes' = [closes EXCEPT ![c] = 0]
    /\ dialFailed' = [dialFailed EXCEPT ![c] = FALSE]
    /\ rpcFailed' = [rpcFailed EXCEPT ![c] = FALSE]
    /\ decFailed' = [decFailed EXCEPT ![c] = FALSE]
    /\ UNCHANGED <<schedVars, errs, total, retTotal, bgp, dials, base,
                   faults, outScrapes, outErrTotal, outUp, auxVars>>

\* ch <- ScrapeErrTotal
SendErrTotal(c) ==
    /\ pc[c] = "sendErrTotal"
    /\ outErrTotal' = [outErrTotal EXCEPT ![c] = Append(@, retTotal[c])]
    /\ pc' = [pc EXCEPT ![c] = "sendUp"]
    /\ UNCHANGED <<schedVars, session, errs, total, retTotal, todo, bgp,
                   histVars, outScrapes, outDur, outUp, auxVars>>

\* if len(errors) > 0 { 0 } else { 1 }
UpValue(n) == IF n > 0 THEN 0 ELSE 1

\* ch <- CollectorUp, then the deferred wg.Done()
SendUp(c) ==
    /\ pc[c] = "sendUp"
    /\ outUp' = [outUp EXCEPT ![c] = Append(@, UpValue(errs[c]))]
    /\ wg' = wg - 1
    /\ pc' = [pc EXCEPT ![c] = "done"]
    /\ UNCHANGED <<scrapeNo, junosTotalScrapeCount, epc, enabled, spawned,
                   session, errs, total, retTotal, todo, bgp, histVars,
                   outScrapes, outDur, outErrTotal, auxVars>>

\* -------------------------------------------------------------------- Next
Next ==
    \/ StartScrape
    \/ CollectInc
    \/ CollectSendTotal
    \/ CollectSpawn
    \/ CollectLoopEnd
    \/ CollectWait
    \/ \E c \in Collectors : Dial(c)
    \/ IfaceExec
    \/ IfaceEmit
    \/ IfaceSpeedError
    \/ IpsecExecInactive
    \/ IpsecEmitInactive
    \/ IpsecExecActive
    \/ IpsecEmitActive
    \/ BgpExecSummary
    \/ BgpExecNeighbor
    \/ BgpExecInstance
    \/ BgpExecPerInstance
    \/ BgpProcessInstanceError
    \/ BgpProcessInstance
    \/ BgpProcessPeers
    \/ BgpNeighborEmit
    \/ \E c \in Collectors : SendDuration(c)
    \/ \E c \in Collectors : SendErrTotal(c)
    \/ \E c \in Collectors : SendUp(c)

Spec == Init /\ [][Next]_vars

\* ------------------------------------------------- the numeric helpers
\* A field text is a sequence of characters.  The characters used are two
\* digits, the decimal point, a blank and a letter: no sign, no exponent.
Digits   == {"0", "1"}
Alphabet == Digits \cup {".", " ", "x"}

RECURSIVE Texts(_)
Texts(n) ==
    IF n = 0 THEN {<<>>}
    ELSE LET shorter == Texts(n - 1)
         IN  shorter \cup {Append(t, ch) : t \in {u \in shorter : Len(u) = n - 1},
                                           ch \in Alphabet}

Text == Texts(MaxLen)

\* values are kept as integers: the value times Scale
RECURSIVE Pow10(_)
Pow10(n) == IF n = 0 THEN 1 ELSE 10 * Pow10(n - 1)

Scale == Pow10(MaxLen)

DigitVal(ch) == IF ch = "1" THEN 1 ELSE 0

\* strings.TrimSpace
RECURSIVE TrimLeft(_)
TrimLeft(t) == IF t # <<>> /\ Head(t) = " " THEN TrimLeft(Tail(t)) ELSE t

RECURSIVE TrimRight(_)
TrimRight(t) ==
    IF t # <<>> /\ t[Len(t)] = " "
    THEN TrimRight(SubSeq(t, 1, Len(t) - 1)) ELSE t

TrimSpace(t) == TrimRight(TrimLeft(t))

\* regexp "[0-9]+", FindString: the leftmost longest run of digits, or ""
RECURSIVE DigitRun(_)
DigitRun(t) ==
    IF t # <<>> /\ Head(t) \in Digits
    THEN <<Head(t)>> \o DigitRun(Tail(t)) ELSE <<>>

RECURSIVE FindDigits(_)
FindDigits(t) ==
    IF t = <<>> THEN <<>>
    ELSE IF Head(t) \in Digits THEN DigitRun(t) ELSE FindDigits(Tail(t))

RECURSIVE DigitsValue(_)
DigitsValue(t) ==
    IF t = <<>> THEN 0
    ELSE 10 * DigitsValue(SubSeq(t, 1, Len(t) - 1)) + DigitVal(t[Len(t)])

\* strconv.ParseFloat(t, 64) on these characters: digits with at most one
\* decimal point and at least one digit, and nothing else; on a syntax
\* error the value returned is 0
ParseFloat(t) ==
    LET dots   == {i \in 1..Len(t) : t[i] = "."}
        digs   == {i \in 1..Len(t) : t[i] \in Digits}
        wellFormed == /\ dots \cup digs = 1..Len(t)
                      /\ Cardinality(dots) <= 1
                      /\ digs # {}
        dot    == IF dots = {} THEN Len(t) + 1 ELSE CHOOSE i \in dots : TRUE
        whole  == SubSeq(t, 1, dot - 1)
        frac   == SubSeq(t, dot + 1, Len(t))
    IN  IF wellFormed
        THEN [ok |-> TRUE,
              val |-> DigitsValue(whole) * Scale
                      + DigitsValue(frac) * Pow10(MaxLen - Len(frac))]
        ELSE [ok |-> FALSE, val |-> 0]

\* what a helper does with one field: the samples it sends and the
\* conversion errors it logs
Conv(samples, logs) == [samples |-> samples, logs |-> logs]

\* a sample's value is value * times / Scale; the product is left unformed
Sample(kind, v, times) == [kind |-> kind, value |-> v, times |-> times]

\* newGauge / newCounter: the sample is sent whether or not the text parsed
NewMetric(kind, metric) ==
    IF metric # <<>>
    THEN LET r == ParseFloat(TrimSpace(metric))
         IN  Conv(<<Sample(kind, r.val, 1)>>, IF r.ok THEN 0 ELSE 1)
    ELSE Conv(<<>>, 0)

newGauge(metric) == NewMetric("gauge", metric)

newCounter(metric) == NewMetric("counter", metric)

MB == 1000000

\* newGaugeMB: the first run of digits, times 1000000
newGaugeMB(metric) ==
    IF metric # <<>>
    THEN LET r == ParseFloat(TrimSpace(FindDigits(metric)))
         IN  Conv(<<Sample("gauge", r.val, MB)>>, IF r.ok THEN 0 ELSE 1)
    ELSE Conv(<<>>, 0)

Helper(fn, metric) ==
    CASE fn = "newGauge"   -> newGauge(metric)
      [] fn = "newCounter" -> newCounter(metric)
      [] fn = "newGaugeMB" -> newGaugeMB(metric)

\* the next field of a reply is handed to helper fn
ConvStep(fn) ==
    /\ idx < MaxFields
    /\ \E t \in Text :
        /\ field' = t
        /\ convOut' = Helper(fn, t).samples
        /\ convLog' = Helper(fn, t).logs
    /\ fnName' = fn
    /\ idx' = idx + 1
    /\ UNCHANGED convFrame

NewGaugeStep == ConvStep("newGauge")

NewCounterStep == ConvStep("newCounter")

NewGaugeMBStep == ConvStep("newGaugeMB")

NextConv == NewGaugeStep \/ NewCounterStep \/ NewGaugeMBStep

SpecConv == Init /\ [][NextConv]_vars

\* ------------------------------------------------- overlapping scrapes
\* The HTTP server runs handler for every request in a goroutine of its
\* own, so Get calls of one collector overlap.  totalOSPFErrors++ is a load
\* and a store of a package-level float64 with no synchronization.
\* totalOSPFErrors++, the load
RaceLoad(g) ==
    /\ rPc[g] = "load"
    /\ rTmp' = [rTmp EXCEPT ![g] = rTotal]
    /\ rPc' = [rPc EXCEPT ![g] = "store"]
    /\ UNCHANGED <<rTotal, rErrs, rRet, rOrder, raceFrame>>

\* totalOSPFErrors++, the store; errors = append(errors, ...)
RaceStore(g) ==
    /\ rPc[g] = "store"
    /\ rTotal' = rTmp[g] + 1
    /\ rErrs' = [rErrs EXCEPT ![g] = @ + 1]
    /\ rPc' = [rPc EXCEPT ![g] = "return"]
    /\ UNCHANGED <<rTmp, rRet, rOrder, raceFrame>>

\* one of the three calls that can fail: DialSSH, Exec and
\* processOSPFNetconfReply; after a failure the counter is incremented and
\* Get returns
RaceCall(g, at, next) ==
    /\ rPc[g] = at
    /\ \E ok \in BOOLEAN : rPc' = [rPc EXCEPT ![g] = IF ok THEN next ELSE "load"]
    /\ UNCHANGED <<rTotal, rTmp, rErrs, rRet, rOrder, raceFrame>>

RaceDial(g) == RaceCall(g, "dial", "exec")

RaceExec(g) == RaceCall(g, "exec", "process")

RaceProcess(g) == RaceCall(g, "process", "return")

\* return errors, totalOSPFErrors
RaceReturn(g) ==
    /\ rPc[g] = "return"
    /\ rRet' = [rRet EXCEPT ![g] = rTotal]
    /\ rOrder' = Append(rOrder, rTotal)
    /\ rPc' = [rPc EXCEPT ![g] = "done"]
    /\ UNCHANGED <<rTotal, rTmp, rErrs, raceFrame>>

NextRace ==
    \E g \in Calls :
        \/ RaceDial(g)
        \/ RaceExec(g)
        \/ RaceProcess(g)
        \/ RaceLoad(g)
        \/ RaceStore(g)
        \/ RaceReturn(g)

SpecRace == Init /\ [][NextRace]_vars

\* ---------------------------------------------------- state-like fields
\* strings.ToLower / strings.ToUpper on the letters that occur
UpperCase == <<"A", "E", "F", "I", "K", "L", "M", "N", "O", "R", "S", "T", "U">>
LowerCase == <<"a", "e", "f", "i", "k", "l", "m", "n", "o", "r", "s", "t", "u">>

LowerOf(ch) ==
    IF \E i \in 1..Len(UpperCase) : UpperCase[i] = ch
    THEN LowerCase[CHOOSE i \in 1..Len(UpperCase) : UpperCase[i] = ch]
    ELSE ch

UpperOf(ch) ==
    IF \E i \in 1..Len(LowerCase) : LowerCase[i] = ch
    THEN UpperCase[CHOOSE i \in 1..Len(LowerCase) : LowerCase[i] = ch]
    ELSE ch

ToLower(t) == [i \in 1..Len(t) |-> LowerOf(t[i])]

ToUpper(t) == [i \in 1..Len(t) |-> UpperOf(t[i])]

\* the texts the code compares with
Online  == <<"O", "n", "l", "i", "n", "e">>
OKText  == <<"O", "K">>
Full    == <<"F", "u", "l", "l">>
okText  == <<"o", "k">>
master  == <<"m", "a", "s", "t", "e", "r">>

\* the texts a device sends in a state field: the healthy texts in every
\* case, near-matches of them, other states and the empty text
StateTexts ==
    LET words == {Online, OKText, Full, master,
                  <<"O", "f", "f", "l", "i", "n", "e">>,
                  <<"b", "a", "c", "k", "u", "p">>}
    IN  UNION {{w, ToLower(w), ToUpper(w), Append(w, " "),
                SubSeq(w, 1, Len(w) - 1)} : w \in words} \cup {<<>>}

StateKinds ==
    {"powerState", "acInputState", "envStatus", "ospfState", "reStatus",
     "reMastership"}

\* the value each state field is mapped to
StateValue(kind, text) ==
    CASE kind = "powerState"   -> IF text = Online THEN 1 ELSE 0
      [] kind = "acInputState" -> IF text = OKText THEN 1 ELSE 0
      [] kind = "envStatus"    -> IF text = OKText THEN 1 ELSE 0
      [] kind = "ospfState"    -> IF text = Full THEN 1 ELSE 0
      [] kind = "reStatus"     -> IF ToLower(text) = okText THEN 1 ELSE 0
      [] kind = "reMastership" -> IF ToLower(text) = master THEN 1 ELSE 0

\* one state field of a reply is mapped and its sample sent
StateStep(kind) ==
    /\ \E t \in StateTexts :
        /\ stText' = t
        /\ stOut' = <<StateValue(kind, t)>>
    /\ stKind' = kind
    /\ UNCHANGED stateFrame

PowerStateStep == StateStep("powerState")

AcInputStateStep == StateStep("acInputState")

EnvStatusStep == StateStep("envStatus")

OspfStateStep == StateStep("ospfState")

ReStatusStep == StateStep("reStatus")

ReMastershipStep == StateStep("reMastership")

\* texts of the <state> of an FPC
FpcTexts ==
    LET words == {Online,
                  <<"O", "f", "f", "l", "i", "n", "e">>,
                  <<"E", "m", "p", "t", "y">>,
                  <<"P", "r", "e", "s", "e", "n", "t">>}
    IN  UNION {{w, ToLower(w), ToUpper(w), Append(w, " ")} : w \in words}
        \cup {<<>>}

\* processFPCNetconfReply: the value of the state gauge; it starts at 3.0
\* and the branches for "offline", "online" and "empty" assign 0.0, 1.0 and
\* 3.0
fpcState(text) ==
    IF ToLower(text) = <<"o", "f", "f", "l", "i", "n", "e">> THEN 0
    ELSE IF ToLower(text) = ToLower(Online) THEN 1
    ELSE IF ToLower(text) = <<"e", "m", "p", "t", "y">> THEN 3
    ELSE 3

\* the state of one FPC is mapped and its sample sent
FpcStateStep ==
    /\ \E t \in FpcTexts :
        /\ stText' = t
        /\ stOut' = <<fpcState(t)>>
    /\ stKind' = "fpcState"
    /\ UNCHANGED stateFrame

NextState ==
    \/ PowerStateStep
    \/ AcInputStateStep
    \/ EnvStatusStep
    \/ OspfStateStep
    \/ ReStatusStep
    \/ ReMastershipStep
    \/ FpcStateStep

SpecState == Init /\ [][NextState]_vars

\* ------------------------------------------------------- label arity
\* the key names a configuration file can list
KeyNames == {"r_name", "InterfaceDescription", "PreclRxPackets"}

RECURSIVE KeyLists(_)
KeyLists(n) ==
    IF n = 0 THEN {<<>>}
    ELSE LET shorter == KeyLists(n - 1)
         IN  shorter \cup {Append(l, k) : l \in {u \in shorter : Len(u) = n - 1},
                                          k \in KeyNames}

Range(l) == {l[i] : i \in 1..Len(l)}

bgpPeerLabels     == <<"peer", "interface", "peer_address_family">>
bgpRIBLabels      == <<"routing_instance">>
bgpPeerRIBLabels  == bgpPeerLabels \o bgpRIBLabels
bgpPeerTypeLabels == <<"type">>

\* bgpDesc: the label names of the BGP metrics
bgpDesc(metric) ==
    CASE metric = "GroupCount" -> bgpRIBLabels
      [] metric = "PeerPeerState" -> bgpPeerRIBLabels
      [] metric = "PeerRIBAdvertisedPrefixCount" -> bgpPeerRIBLabels
      [] metric = "PeerTypesUp" -> bgpPeerTypeLabels

ifacePhysicalLabels == <<"interface">>
ifacePRECLClass     == Append(ifacePhysicalLabels, "class")

\* getInterfaceDesc: the map literal, then the description Desc when
\* description keys are configured, then one Desc per metric key, each
\* assignment replacing what the map held under that name
getInterfaceDesc(ifaceDescrKeys, ifaceMetricKeys, metric) ==
    IF metric \in Range(ifaceMetricKeys) THEN <<"interface">>
    ELSE IF metric = "InterfaceDescription" /\ Len(ifaceDescrKeys) > 0
         THEN <<"interface">> \o ifaceDescrKeys
    ELSE IF metric = "PreclRxPackets" THEN ifacePRECLClass
    ELSE ifacePhysicalLabels

\* handler: the configuration of the request
ArityConfigure ==
    /\ arMetric = "none"
    /\ arCfg = NoKeys
    /\ \E dk \in KeyLists(MaxKeys), mk \in KeyLists(MaxKeys) :
          /\ dk # <<>> \/ mk # <<>>
          /\ arCfg' = [descrKeys |-> dk, metricKeys |-> mk]
    /\ UNCHANGED <<arMetric, arNames, arValues, arityFrame>>

\* one sample is sent: the metric, the label names of its Desc and the
\* label values passed
Emit(metric, names, values) ==
    /\ arMetric' = metric
    /\ arNames' = names
    /\ arValues' = values
    /\ UNCHANGED <<arCfg, arityFrame>>

IfaceDescOf(metric) ==
    getInterfaceDesc(arCfg.descrKeys, arCfg.metricKeys, metric)

\* ifaceDesc["Up"] with ifaceLabels
EmitIfaceUp == Emit("Up", IfaceDescOf("Up"), <<"name">>)

\* ifaceDesc["InterfaceDescription"] with the interface name and one value
\* per configured description key
EmitIfaceDescription ==
    /\ Len(arCfg.descrKeys) > 0
    /\ Emit("InterfaceDescription", IfaceDescOf("InterfaceDescription"),
            <<"name">> \o [i \in 1..Len(arCfg.descrKeys) |-> "value"])

\* ifaceDesc[configuredKey] with the interface name
EmitIfaceMetricKey ==
    \E k \in Range(arCfg.metricKeys) : Emit(k, IfaceDescOf(k), <<"name">>)

\* ifaceDesc["PreclRxPackets"] with preclLabels
EmitIfacePrecl ==
    Emit("PreclRxPackets", IfaceDescOf("PreclRxPackets"),
         Append(<<"name">>, "class"))

\* bgpDesc["GroupCount"] with ribLabels
EmitBgpRib == Emit("GroupCount", bgpDesc("GroupCount"), <<"instance">>)

\* bgpDesc["PeerPeerState"] with peerRIBLabels
EmitBgpPeer ==
    Emit("PeerPeerState", bgpDesc("PeerPeerState"),
         Append(<<"peer", "interface", "family">>, "rti"))

\* bgpDesc["PeerRIBAdvertisedPrefixCount"] with peerLabels
EmitBgpNeighbor ==
    Emit("PeerRIBAdvertisedPrefixCount",
         bgpDesc("PeerRIBAdvertisedPrefixCount"),
         <<"peer", "interface", "rti", "family">>)

\* bgpDesc["PeerTypesUp"] with peerType
EmitBgpPeerType == Emit("PeerTypesUp", bgpDesc("PeerTypesUp"), <<"type">>)

NextArity ==
    \/ ArityConfigure
    \/ EmitIfaceUp
    \/ EmitIfaceDescription
    \/ EmitIfaceMetricKey
    \/ EmitIfacePrecl
    \/ EmitBgpRib
    \/ EmitBgpPeer
    \/ EmitBgpNeighbor
    \/ EmitBgpPeerType

SpecArity == Init /\ [][NextArity]_vars

\* --------------------------------------- BGP per-instance RIB totals
RibInstances == {"A", "B"}
RibNames     == {"A.inet.0", "A.inet6.0"}

\* getInstanceNameToRibName: instanceToIribName[iribName] = instanceName,
\* for the RIBs the instance reply lists
RouteInstanceMaps ==
    UNION {[d -> RibInstances] : d \in SUBSET RibNames}

\* a bgp-rib element of a per-instance summary reply: its name and its
\* total-prefix-count
RibEntries == [name : RibNames, total : 1..MaxTotal]

\* a per-instance summary reply: no, one or two bgp-rib elements, two of
\* them possibly of the same name
SummaryReplies ==
    {<<>>} \cup {<<e>> : e \in RibEntries}
           \cup {<<e, f>> : e \in RibEntries, f \in RibEntries}

\* the orders in which a range over a map with key set S can visit it
Orders(S) ==
    {o \in [1..Cardinality(S) -> S] : {o[i] : i \in 1..Cardinality(S)} = S}

\* (variant) routeInstanceCheck is not looked at
RibHitUnchecked(routeInstanceBGP, routeInstances, routeInstance, ribData, checked) ==
    /\ routeInstanceBGP = routeInstances[routeInstance]
    /\ ribData.name = routeInstance

\* the three conditions around the RIB totals: the RIB name belongs to this
\* instance, the bgp-rib element has that name, and routeInstanceCheck has
\* no entry for the instance yet
RibHit(routeInstanceBGP, routeInstances, routeInstance, ribData, checked) ==
    /\ routeInstanceBGP = routeInstances[routeInstance]
    /\ ribData.name = routeInstance
    /\ ~checked

\* the RIB totals sent for routeInstanceBGP, in the order sent: the range
\* over routeInstances in the given order from its k-th key on, and for each
\* key the bgp-rib elements from the j-th on; checked says whether
\* routeInstanceCheck holds the instance
RECURSIVE RibTotals(_, _, _, _, _, _, _)
RibTotals(routeInstanceBGP, routeInstances, BgpRib, order, k, j, checked) ==
    IF k > Len(order) THEN <<>>
    ELSE IF j > Len(BgpRib)
    THEN RibTotals(routeInstanceBGP, routeInstances, BgpRib, order,
                   k + 1, 1, checked)
    ELSE LET hit == RibHit(routeInstanceBGP, routeInstances, order[k],
                           BgpRib[j], checked)
             sent == IF hit
                     THEN << <<"RIBTotalPrefixCount", "gauge", BgpRib[j].total,
                               <<routeInstanceBGP>>>> >>
                     ELSE <<>>
         IN  sent \o RibTotals(routeInstanceBGP, routeInstances, BgpRib, order,
                               k, j + 1, checked \/ hit)

\* the samples of one instance: the group count, then the RIB totals
InstanceSamples(routeInstanceBGP, routeInstances, BgpRib, order) ==
    << <<"GroupCount", "gauge", 1, <<routeInstanceBGP>>>> >>
    \o RibTotals(routeInstanceBGP, routeInstances, BgpRib, order, 1, 1, FALSE)

\* the samples of a sequence with the number of times each was sent
SentCounts(sent) ==
    [x \in Range(sent) |-> Cardinality({i \in 1..Len(sent) : sent[i] = x})]

\* Get: the instance reply and the per-instance summary replies arrive
RibReceive ==
    /\ rbIn.summary = <<>>
    /\ rbRuns = <<>>
    /\ \E ri \in RouteInstanceMaps, sa, sb \in SummaryReplies :
          rbIn' = [routeInstances |-> ri, summary |-> [A |-> sa, B |-> sb]]
    /\ UNCHANGED <<rbRuns, ribFrame>>

\* processBGPNetconfReply, lines 251-284, on the replies held; the order in
\* which the instances are visited changes the order of the samples only
RibDecode ==
    /\ rbIn.summary # <<>>
    /\ Len(rbRuns) < MaxDecodes
    /\ \E order \in Orders(DOMAIN rbIn.routeInstances) :
          rbRuns' = Append(rbRuns,
              SentCounts(InstanceSamples("A", rbIn.routeInstances,
                                         rbIn.summary["A"], order)
                         \o InstanceSamples("B", rbIn.routeInstances,
                                            rbIn.summary["B"], order)))
    /\ UNCHANGED <<rbIn, ribFrame>>

NextRib ==
    \/ RibReceive
    \/ RibDecode

SpecRib == Init /\ [][NextRib]_vars

\* ------------------------------------------------- BGP peer labels
\* texts of <peer-address>, of <bgp-peer-header><peer-address> and of
\* <local-interface-name>
PeerAddrs   == {<<>>, <<"a", "+", "1">>, <<"a", "+", "2">>, <<" ", "a">>, <<"b">>}
HeaderAddrs == {<<>>, <<"a", "+", "1">>, <<"b", "+", "1">>}
IfaceNames  == {<<"g", "0">>, <<"g", "1", " ">>}

PeerEntries ==
    [PeerAddress : PeerAddrs, HeaderAddress : HeaderAddrs,
     LocalInterfaceName : IfaceNames]

RECURSIVE PeerReplies(_)
PeerReplies(n) ==
    IF n = 0 THEN {<<>>}
    ELSE LET shorter == PeerReplies(n - 1)
         IN  shorter \cup {Append(r, p) : r \in {u \in shorter : Len(u) = n - 1},
                                          p \in PeerEntries}

\* strings.Split(t, "+")[0]: the text before the first "+"
RECURSIVE BeforePlus(_)
BeforePlus(t) ==
    IF t = <<>> \/ Head(t) = "+" THEN <<>>
    ELSE <<Head(t)>> \o BeforePlus(Tail(t))

\* regexp `\+.*`, ReplaceAllString(t, ""): the first "+" and what follows
\* it on the line are removed
RECURSIVE RemovePort(_)
RemovePort(t) ==
    IF t = <<>> THEN <<>>
    ELSE IF Head(t) = "+" THEN <<>>
    ELSE <<Head(t)>> \o RemovePort(Tail(t))

\* <peer-address> when it is not empty, else the one of the header
PeerAddressOf(p) ==
    IF p.PeerAddress # <<>> THEN p.PeerAddress ELSE p.HeaderAddress

\* getBgpPeerInterface, then the lookup bgpPeerInterfaces[peerAddress]:
\* every entry with an address assigns peerToInterface[key], a later entry
\* replacing an earlier one under the same key; a missing key gives ""
getBgpPeerInterface(peers, key) ==
    LET hits == {i \in 1..Len(peers) :
                    /\ PeerAddressOf(peers[i]) # <<>>
                    /\ BeforePlus(PeerAddressOf(peers[i])) = key}
    IN  IF hits = {} THEN <<>>
        ELSE LET last == CHOOSE i \in hits : \A j \in hits : j <= i
             IN  peers[last].LocalInterfaceName

\* processBGPNetconfReply: peerLabels[0] and peerLabels[1] of entry i
PeerLabels(peers, i) ==
    LET peerAddress == BeforePlus(PeerAddressOf(peers[i]))
    IN  [peer |-> TrimSpace(peerAddress),
         interface |-> TrimSpace(getBgpPeerInterface(peers, peerAddress))]

\* processBGPNeighborNetconfReply: peerLabels[0] and peerLabels[1]
NeighborLabels(p) ==
    [peer |-> RemovePort(TrimSpace(PeerAddressOf(p))),
     interface |-> TrimSpace(p.LocalInterfaceName)]

\* Get: the neighbor reply arrives
PeerReceive ==
    /\ pvStage = "idle"
    /\ \E r \in PeerReplies(MaxPeers) : r # <<>> /\ pvIn' = r
    /\ pvStage' = "got"
    /\ UNCHANGED <<pvOut, pvNb, peerFrame>>

\* processBGPNetconfReply: one label set per bgp-peer entry
PeerProcess ==
    /\ pvStage = "got"
    /\ pvOut' = [i \in 1..Len(pvIn) |-> PeerLabels(pvIn, i)]
    /\ pvStage' = "mapped"
    /\ UNCHANGED <<pvIn, pvNb, peerFrame>>

\* processBGPNeighborNetconfReply: one label set per bgp-peer entry that
\* has an address
PeerNeighborProcess ==
    /\ pvStage = "mapped"
    /\ pvNb' = [i \in 1..Len(pvIn) |->
                  IF PeerAddressOf(pvIn[i]) # <<>>
                  THEN <<NeighborLabels(pvIn[i])>> ELSE <<>>]
    /\ pvStage' = "done"
    /\ UNCHANGED <<pvIn, pvOut, peerFrame>>

NextPeer ==
    \/ PeerReceive
    \/ PeerProcess
    \/ PeerNeighborProcess

SpecPeer == Init /\ [][NextPeer]_vars

\* ------------------------------------ BGP per-instance summary RPCs
\* instance names an instance reply can list
InstancePool ==
    InstanceNames \cup { <<"__master", ".anon">>, <<"mgmt_junos">>,
                         <<"CUSTOMER-B">> }

RECURSIVE InstanceReplies(_)
InstanceReplies(n) ==
    IF n = 0 THEN {<<>>}
    ELSE LET shorter == InstanceReplies(n - 1)
         IN  shorter \cup {Append(r, i) : r \in {u \in shorter : Len(u) = n - 1},
                                          i \in InstancePool}

\* getInstanceNameToRibName: routeInstanceNames[name] = name for every
\* instance-core entry; the keys of the map
routeInstanceNames(reply) == {reply[i] : i \in 1..Len(reply)}

\* (variant) every instance is queried
InstanceQueriedAlways(routeInstance) == TRUE

\* the condition of the loop body: the name holds none of the markers
InstanceQueried(routeInstance) == ~IsReservedInstance(routeInstance)

\* replyRouteInstance has arrived: getInstanceNameToRibName decodes it (an
\* error leaves the map empty), and the range loop starts
InstEnumerate ==
    /\ inPc = "idle"
    /\ inReply = NoInstanceReply
    /\ \E names \in InstanceReplies(MaxInstances), ok \in BOOLEAN :
          /\ names # <<>>
          /\ inReply' = [ok |-> ok, names |-> names]
          /\ inLeft' = IF ok THEN routeInstanceNames(names) ELSE {}
    /\ inPc' = "range"
    /\ UNCHANGED <<inLog, instFrame>>

\* one iteration of the range loop on a name that is not queried
InstSkip ==
    /\ inPc = "range"
    /\ \E routeInstance \in inLeft :
          /\ ~InstanceQueried(routeInstance)
          /\ inLeft' = inLeft \ {routeInstance}
    /\ UNCHANGED <<inPc, inReply, inLog, instFrame>>

\* one iteration on a name that is queried: s.Exec with the instance; an
\* error makes Get return
InstExec ==
    /\ inPc = "range"
    /\ \E routeInstance \in inLeft, ok \in BOOLEAN :
          /\ InstanceQueried(routeInstance)
          /\ inLog' = Append(inLog, routeInstance)
          /\ inLeft' = inLeft \ {routeInstance}
          /\ inPc' = IF ok THEN "range" ELSE "ret"
    /\ UNCHANGED <<inReply, instFrame>>

\* the range loop is over: processBGPNetconfReply
InstProcess ==
    /\ inPc = "range"
    /\ inLeft = {}
    /\ inPc' = "process"
    /\ UNCHANGED <<inReply, inLeft, inLog, instFrame>>

NextInst ==
    \/ InstEnumerate
    \/ InstSkip
    \/ InstExec
    \/ InstProcess

SpecInst == Init /\ [][NextInst]_vars

\* ------------------------------------------------- BGP peer types up
\* keys a configuration can list under bgp_peer_type_keys
TypeKeyNames == {"type", "role"}

RECURSIVE TypeKeyLists(_)
TypeKeyLists(n) ==
    IF n = 0 THEN {<<>>}
    ELSE LET shorter == TypeKeyLists(n - 1)
         IN  shorter \cup {Append(l, k) : l \in {u \in shorter : Len(u) = n - 1},
                                          k \in TypeKeyNames}

\* the <description> of a bgp-peer: empty, not JSON, or a JSON object of
\* text members
NoDescription == [text |-> FALSE, json |-> FALSE, members |-> <<>>]
NotJSON       == [text |-> TRUE, json |-> FALSE, members |-> <<>>]

JSONObject(members) == [text |-> TRUE, json |-> TRUE, members |-> members]

Descriptions ==
    { NoDescription, NotJSON,
      JSONObject([type |-> <<"i">>]),
      JSONObject([type |-> <<"t">>]),
      JSONObject([type |-> <<" ", "i">>]),
      JSONObject([role |-> <<"i">>]),
      JSONObject([type |-> <<"i">>, role |-> <<"i">>]),
      JSONObject([type |-> <<"i">>, role |-> <<"t">>]) }

established == <<"e", "s", "t", "a", "b", "l", "i", "s", "h", "e", "d">>

\* texts of <peer-state>
PeerStates ==
    { established,
      <<"E", "s", "t", "a", "b", "l", "i", "s", "h", "e", "d">>,
      <<"A", "c", "t", "i", "v", "e">> }

TypePeers == [Description : Descriptions, PeerState : PeerStates]

RECURSIVE TypeReplies(_)
TypeReplies(n) ==
    IF n = 0 THEN {<<>>}
    ELSE LET shorter == TypeReplies(n - 1)
         IN  shorter \cup {Append(r, p) : r \in {u \in shorter : Len(u) = n - 1},
                                          p \in TypePeers}

\* json.Unmarshal into peerType when there are type keys and a description,
\* then peerType[descKey]: the member's text, "" when there is none
PeerTypeOf(bgpTypeKeys, peerData, descKey) ==
    LET d == peerData.Description
    IN  IF Len(bgpTypeKeys) > 0 /\ d.text /\ d.json /\ descKey \in DOMAIN d.members
        THEN d.members[descKey] ELSE <<>>

\* peerTypes[key] = value
MapPut(m, key, value) ==
    [k \in DOMAIN m \cup {key} |-> IF k = key THEN value ELSE m[k]]

\* lines 310-320: a type met for the first time starts at 0; only when the
\* description is one and decodes
RECURSIVE InitTypes(_, _, _, _)
InitTypes(peerTypes, bgpTypeKeys, peerData, k) ==
    IF k > Len(bgpTypeKeys) THEN peerTypes
    ELSE LET v == PeerTypeOf(bgpTypeKeys, peerData, bgpTypeKeys[k])
             next == IF v # <<>> /\ TrimSpace(v) \notin DOMAIN peerTypes
                     THEN MapPut(peerTypes, TrimSpace(v), 0)
                     ELSE peerTypes
         IN  InitTypes(next, bgpTypeKeys, peerData, k + 1)

\* strings.ToLower(peerData.PeerState.Text) == "established"
IsEstablished(peerData) == ToLower(peerData.PeerState) = established

\* lines 326-330: peerTypes[...]++ for every type key with a value
RECURSIVE CountTypes(_, _, _, _)
CountTypes(peerTypes, bgpTypeKeys, peerData, k) ==
    IF k > Len(bgpTypeKeys) THEN peerTypes
    ELSE LET v == PeerTypeOf(bgpTypeKeys, peerData, bgpTypeKeys[k])
             old == IF TrimSpace(v) \in DOMAIN peerTypes
                    THEN peerTypes[TrimSpace(v)] ELSE 0
             next == IF v # <<>>
                     THEN MapPut(peerTypes, TrimSpace(v), old + 1)
                     ELSE peerTypes
         IN  CountTypes(next, bgpTypeKeys, peerData, k + 1)

\* the loop over the bgp-peer entries, from entry i on
RECURSIVE PeerTypes(_, _, _, _)
PeerTypes(peerTypes, bgpTypeKeys, peers, i) ==
    IF i > Len(peers) THEN peerTypes
    ELSE LET started == InitTypes(peerTypes, bgpTypeKeys, peers[i], 1)
             counted == IF IsEstablished(peers[i])
                        THEN CountTypes(started, bgpTypeKeys, peers[i], 1)
                        ELSE started
         IN  PeerTypes(counted, bgpTypeKeys, peers, i + 1)

\* Get: the configuration and the neighbor reply
TypeReceive ==
    /\ tyStage = "idle"
    /\ \E keys \in TypeKeyLists(MaxKeys), peers \in TypeReplies(MaxPeers) :
          /\ peers # <<>>
          /\ tyKeys' = keys
          /\ tyPeers' = peers
    /\ tyStage' = "got"
    /\ UNCHANGED <<tyOut, typeFrame>>

\* processBGPNetconfReply: the peers loop, then one PeerTypesUp sample per
\* key of peerTypes
TypeProcess ==
    /\ tyStage = "got"
    /\ LET peerTypes == PeerTypes(<<>>, tyKeys, tyPeers, 1)
       IN  tyOut' = {<<t, peerTypes[t]>> : t \in DOMAIN peerTypes}
    /\ tyStage' = "done"
    /\ UNCHANGED <<tyKeys, tyPeers, typeFrame>>

NextTypes ==
    \/ TypeReceive
    \/ TypeProcess

SpecTypes == Init /\ [][NextTypes]_vars

\* ------------------------------------------- per-class statistics
\* texts of <precl-traffic-class>
ClassTexts == {<<"b">>, <<" ", "b">>, <<"b", "_", "1">>, <<"e">>}

RECURSIVE ClassLists(_)
ClassLists(n) ==
    IF n = 0 THEN {<<>>}
    ELSE LET shorter == ClassLists(n - 1)
         IN  shorter \cup {Append(l, t) : l \in {u \in shorter : Len(u) = n - 1},
                                          t \in ClassTexts}

DecimalDigits == <<"0", "1", "2", "3", "4", "5", "6", "7", "8", "9">>

\* the verb %d of fmt.Sprintf on a number that is not negative
RECURSIVE Itoa(_)
Itoa(n) ==
    IF n < 10 THEN <<DecimalDigits[n + 1]>>
    ELSE Itoa(n \div 10) \o <<DecimalDigits[(n % 10) + 1]>>

\* fmt.Sprintf("%s_%d", trafficClass, n)
ClassWithIndex(trafficClass, n) == trafficClass \o <<"_">> \o Itoa(n)

\* the label of an entry whose trimmed name was met seen times before: the
\* name itself the first time, then the name with the occurrence index
ClassLabel(trafficClass, seen) ==
    IF seen > 0 THEN ClassWithIndex(trafficClass, seen) ELSE trafficClass

\* the loop over PreclPerClassStatistics from entry i on;
\* existingTrafficClasses[name] is the number of earlier entries of that
\* trimmed name, less one
RECURSIVE PreclLabels(_, _)
PreclLabels(classes, i) ==
    IF i > Len(classes) THEN <<>>
    ELSE LET trafficClass == TrimSpace(classes[i])
             seen == Cardinality({j \in 1..(i - 1) :
                                     TrimSpace(classes[j]) = trafficClass})
         IN  <<ClassLabel(trafficClass, seen)>> \o PreclLabels(classes, i + 1)

\* the reply of one physical interface arrives
PreclReceive ==
    /\ clStage = "idle"
    /\ \E classes \in ClassLists(MaxClasses) :
          /\ classes # <<>>
          /\ clIn' = classes
    /\ clStage' = "got"
    /\ UNCHANGED <<clOut, preclFrame>>

\* processIfaceNetconfReply: the per-class loop of the interface
PreclProcess ==
    /\ clStage = "got"
    /\ clOut' = PreclLabels(clIn, 1)
    /\ clStage' = "done"
    /\ UNCHANGED <<clIn, preclFrame>>

NextPrecl ==
    \/ PreclReceive
    \/ PreclProcess

SpecPrecl == Init /\ [][NextPrecl]_vars

\* --------------------------------- logical interface traffic source
\* ifaceInOutBytesPktsBPSPPSV6 with each field absent or holding the text v
TrafficStats(v) ==
    [InputBytes : {<<>>, v}, OutputBytes : {<<>>, v},
     InputBps : {<<>>, v}, OutputBps : {<<>>, v}]

\* trafficStatsSource: the transit statistics, replaced by the lag bundle
\* when the lag bundle's input-bps has a text
trafficStatsSource(logIface) ==
    IF logIface.lag.InputBps # <<>> THEN logIface.lag ELSE logIface.transit

\* the reply holds a logical interface
LagReceive ==
    /\ lgStage = "idle"
    /\ \E lag \in TrafficStats(<<"1">>), transit \in TrafficStats(<<"0">>) :
          lgIn' = [lag |-> lag, transit |-> transit]
    /\ lgStage' = "got"
    /\ UNCHANGED <<lgOut, lagFrame>>

\* processIfaceNetconfReply: the traffic samples of the logical interface
LagProcess ==
    /\ lgStage = "got"
    /\ lgOut' = trafficStatsSource(lgIn)
    /\ lgStage' = "done"
    /\ UNCHANGED <<lgIn, lagFrame>>

NextLag ==
    \/ LagReceive
    \/ LagProcess

SpecLag == Init /\ [][NextLag]_vars

\* ------------------------------------------- description key look-up
\* the value of a member of a JSON object as json.Unmarshal stores it in a
\* map[string]interface{}: no entry, nil for null, a float64, or a string
JSONValues == {"absent", "null", "number", "string"}

\* the <description> texts: empty, not JSON, or a JSON object
DescriptionTexts ==
    [text : {"empty", "notJSON"}, members : {[k \in KeyNames |-> "absent"]}]
    \cup [text : {"object"}, members : [KeyNames -> JSONValues]]

\* allIfaceDescrKeys[configuredKey]: nil when Unmarshal failed (the map is
\* nil), when there is no entry and when the entry is null
DescrLookup(description, configuredKey) ==
    IF description.text = "object" /\ description.members[configuredKey] # "null"
    THEN description.members[configuredKey] ELSE "absent"

\* value.(string): the text of a string, and a run-time panic otherwise
AssertString(value) ==
    IF value = "string" THEN [panic |-> FALSE, text |-> <<"v">>]
    ELSE [panic |-> TRUE, text |-> <<>>]

\* the loop over ifaceDescrKeys from key i on: "" for nil, else the string
RECURSIVE DescrLabels(_, _, _, _)
DescrLabels(description, ifaceDescrKeys, i, labels) ==
    IF i > Len(ifaceDescrKeys) THEN [panic |-> FALSE, labels |-> labels]
    ELSE LET value == DescrLookup(description, ifaceDescrKeys[i])
         IN  IF value = "absent"
             THEN DescrLabels(description, ifaceDescrKeys, i + 1,
                              Append(labels, <<>>))
             ELSE IF AssertString(value).panic
             THEN [panic |-> TRUE, labels |-> labels]
             ELSE DescrLabels(description, ifaceDescrKeys, i + 1,
                              Append(labels, AssertString(value).text))

\* the loop over ifaceMetricKeys from key i on: a sample for every key whose
\* value is not nil
RECURSIVE DescrMetrics(_, _, _, _)
DescrMetrics(description, ifaceMetricKeys, i, sent) ==
    IF i > Len(ifaceMetricKeys) THEN [panic |-> FALSE, metrics |-> sent]
    ELSE LET value == DescrLookup(description, ifaceMetricKeys[i])
         IN  IF value = "absent"
             THEN DescrMetrics(description, ifaceMetricKeys, i + 1, sent)
             ELSE IF AssertString(value).panic
             THEN [panic |-> TRUE, metrics |-> sent]
             ELSE DescrMetrics(description, ifaceMetricKeys, i + 1,
                               Append(sent, ifaceMetricKeys[i]))

\* lines 262-281: the description labels when description keys are
\* configured, then the metric keys
DescrProcess(in) ==
    LET labels == IF Len(in.descrKeys) > 0
                  THEN DescrLabels(in, in.descrKeys, 1, <<"name">>)
                  ELSE [panic |-> FALSE, labels |-> <<>>]
        metrics == DescrMetrics(in, in.metricKeys, 1, <<>>)
    IN  IF labels.panic
        THEN [panic |-> TRUE, labels |-> <<>>, metrics |-> <<>>]
        ELSE [panic |-> metrics.panic, labels |-> labels.labels,
              metrics |-> metrics.metrics]

\* the reply holds an interface with a description
DescrReceive ==
    /\ dkStage = "idle"
    /\ \E d \in DescriptionTexts, dk \in KeyLists(MaxKeys),
          mk \in KeyLists(MaxKeys) :
          /\ dk # <<>> \/ mk # <<>>
          /\ dkIn' = [text |-> d.text, members |-> d.members,
                      descrKeys |-> dk, metricKeys |-> mk]
    /\ dkStage' = "got"
    /\ UNCHANGED <<dkOut, descrFrame>>

\* processIfaceNetconfReply: the keys are looked up
DescrLookupStep ==
    /\ dkStage = "got"
    /\ dkOut' = DescrProcess(dkIn)
    /\ dkStage' = "done"
    /\ UNCHANGED <<dkIn, descrFrame>>

NextDescr ==
    \/ DescrReceive
    \/ DescrLookupStep

SpecDescr == Init /\ [][NextDescr]_vars

\* ------------------------------------------------ request validation
\* the names under "config" in the configuration file; the second has no
\* allowed_targets of its own
ConfigNames  == {"default", "bgp_only"}
ConfigParams == ConfigNames \cup {"", "unknown"}
TargetNames  == {"10.0.0.1", "10.0.0.2"}
TargetParams == TargetNames \cup {""}

RECURSIVE TargetLists(_)
TargetLists(n) ==
    IF n = 0 THEN {<<>>}
    ELSE LET shorter == TargetLists(n - 1)
         IN  shorter \cup {Append(l, t) : l \in {u \in shorter : Len(u) = n - 1},
                                          t \in TargetNames}

\* collectorConfig.Config[configParam].AllowedTargets
AllowedTargets(in, configParam) ==
    IF configParam = "default" THEN in.allowed ELSE <<>>

Listed(targetParam, targets) ==
    \E i \in 1..Len(targets) : targets[i] = targetParam

\* (variant) the global list is looked at before the one of the config
validateGlobalFirst(in, configParam, targetParam) ==
    IF configParam = "" THEN "no config"
    ELSE IF configParam \notin ConfigNames THEN "unknown config"
    ELSE IF targetParam = "" THEN "no target"
    ELSE IF Len(in.global) > 0
    THEN (IF Listed(targetParam, in.global) THEN "nil" ELSE "not listed")
    ELSE IF Len(AllowedTargets(in, configParam)) > 0
    THEN (IF Listed(targetParam, AllowedTargets(in, configParam))
          THEN "nil" ELSE "not listed")
    ELSE "nil"

\* validateRequest: the error it returns, "nil" for none
validateRequest(in, configParam, targetParam) ==
    IF configParam = "" THEN "no config"
    ELSE IF configParam \notin ConfigNames THEN "unknown config"
    ELSE IF targetParam = "" THEN "no target"
    ELSE IF Len(AllowedTargets(in, configParam)) > 0
    THEN (IF Listed(targetParam, AllowedTargets(in, configParam))
          THEN "nil" ELSE "not listed")
    ELSE IF Len(in.global) > 0
    THEN (IF Listed(targetParam, in.global) THEN "nil" ELSE "not listed")
    ELSE "nil"

\* a request arrives at the handler
ReqReceive ==
    /\ rqStage = "idle"
    /\ \E c \in ConfigParams, t \in TargetParams,
          a \in TargetLists(MaxTargets), g \in TargetLists(MaxTargets) :
          rqIn' = [config |-> c, target |-> t, allowed |-> a, global |-> g]
    /\ rqStage' = "got"
    /\ UNCHANGED <<rqStatus, rqExporters, reqFrame>>

\* handler: an error of validateRequest is answered with 400
ReqReject ==
    /\ rqStage = "got"
    /\ validateRequest(rqIn, rqIn.config, rqIn.target) # "nil"
    /\ rqStatus' = 400
    /\ rqStage' = "rejected"
    /\ UNCHANGED <<rqIn, rqExporters, reqFrame>>

\* handler: no error, the exporter for the request is created
ReqAccept ==
    /\ rqStage = "got"
    /\ validateRequest(rqIn, rqIn.config, rqIn.target) = "nil"
    /\ rqExporters' = rqExporters + 1
    /\ rqStage' = "scrape"
    /\ UNCHANGED <<rqIn, rqStatus, reqFrame>>

NextReq ==
    \/ ReqReceive
    \/ ReqReject
    \/ ReqAccept

SpecReq == Init /\ [][NextReq]_vars

\* ==================================================================
\* SpecLive: Exporter.Collect, its workers and the receiver of the metrics
\* channel, with the scheduling stated
\* ==================================================================
\* The unbuffered channel: a sender waits in the channel's queue of senders
\* until the receiver takes its sample.  "collect" is Exporter.Collect itself.
Senders == Collectors \cup {"collect"}

Queued(s) == \E i \in 1..Len(lvQueue) : lvQueue[i] = s

\* The Exec calls and the process<X>NetconfReply calls of a Get call, in
\* program order (the per-instance loop of the BGP collector as one Exec).
Script(c) ==
    CASE c = "interface" -> <<"exec", "process">>
      [] c = "ipsec"     -> <<"exec", "process", "exec", "process">>
      [] c = "bgp"       -> <<"exec", "exec", "exec", "exec",
                              "process", "process">>

\* where a worker is after i steps of its Get call: Get has returned when
\* the script is over and ScrapeDuration is sent next
StageAt(c, i) == IF i > Len(Script(c)) THEN "dur" ELSE Script(c)[i]

LiveGoTo(c, i) ==
    /\ lvAt' = [lvAt EXCEPT ![c] = i]
    /\ lvW' = [lvW EXCEPT ![c] = StageAt(c, i)]

\* Gather calls Collect of a fresh Exporter; junosTotalScrapeCount++
LiveStart ==
    /\ lvPc \in {"idle", "returned"}
    /\ \E en \in EnabledSets : lvEnabled' = en
    /\ lvPc' = "sendTotal"
    /\ lvSpawned' = {}
    /\ lvWg' = 0
    /\ lvW' = [c \in Collectors |-> "off"]
    /\ lvAt' = AllZero
    /\ lvTodo' = AllZero
    /\ UNCHANGED <<lvQueue, liveFrame>>

\* ch <- ScrapesTotal: Collect waits for the receiver
LiveSendTotal ==
    /\ lvPc = "sendTotal"
    /\ ~Queued("collect")
    /\ lvQueue' = Append(lvQueue, "collect")
    /\ UNCHANGED <<lvPc, lvEnabled, lvSpawned, lvWg, lvW, lvAt, lvTodo,
                   liveFrame>>

\* (variant) the counter of the barrier is raised twice for a worker
LiveAddTwice == lvWg + 2

\* wg.Add(1)
LiveAdd == lvWg + 1

\* wg.Add(1); go e.runCollector(ch, collector, wg)
LiveSpawn ==
    /\ lvPc = "spawn"
    /\ lvSpawned # lvEnabled
    /\ LET left == {i \in 1..Len(CollectorOrder) :
                        /\ CollectorOrder[i] \in lvEnabled
                        /\ CollectorOrder[i] \notin lvSpawned}
           c == CollectorOrder[CHOOSE i \in left : \A j \in left : i <= j]
       IN  /\ lvWg' = LiveAdd
           /\ lvSpawned' = lvSpawned \cup {c}
           /\ lvW' = [lvW EXCEPT ![c] = "dial"]
    /\ UNCHANGED <<lvPc, lvEnabled, lvAt, lvTodo, lvQueue, liveFrame>>

\* the range loop over e.Collectors is over
LiveLoopEnd ==
    /\ lvPc = "spawn"
    /\ lvSpawned = lvEnabled
    /\ lvPc' = "wait"
    /\ UNCHANGED <<lvEnabled, lvSpawned, lvWg, lvW, lvAt, lvTodo, lvQueue,
                   liveFrame>>

\* wg.Wait() returns when the counter is zero, and Collect returns
LiveWait ==
    /\ lvPc = "wait"
    /\ lvWg = 0
    /\ lvPc' = "returned"
    /\ UNCHANGED <<lvEnabled, lvSpawned, lvWg, lvW, lvAt, lvTodo, lvQueue,
                   liveFrame>>

\* netconf.DialSSH returns: a session, or an error and Get returns
LiveDial(c) ==
    /\ lvW[c] = "dial"
    /\ \/ LiveGoTo(c, 1)
       \/ LiveGoTo(c, Len(Script(c)) + 1)
    /\ UNCHANGED <<lvPc, lvEnabled, lvSpawned, lvWg, lvTodo, lvQueue,
                   liveFrame>>

\* s.Exec returns: a reply, or an error and Get returns
LiveExec(c) ==
    /\ lvW[c] = "exec"
    /\ \/ LiveGoTo(c, lvAt[c] + 1)
       \/ LiveGoTo(c, Len(Script(c)) + 1)
    /\ UNCHANGED <<lvPc, lvEnabled, lvSpawned, lvWg, lvTodo, lvQueue,
                   liveFrame>>

\* process<X>NetconfReply: the decode fails or the reply has no entries
\* (nothing is sent), or the samples of its entries are sent one by one
LiveProcess(c) ==
    /\ lvW[c] = "process"
    /\ \E n \in 0..MaxItems :
        IF n = 0
        THEN LiveGoTo(c, lvAt[c] + 1) /\ UNCHANGED lvTodo
        ELSE /\ lvW' = [lvW EXCEPT ![c] = "emit"]
             /\ lvTodo' = [lvTodo EXCEPT ![c] = n]
             /\ UNCHANGED lvAt
    /\ UNCHANGED <<lvPc, lvEnabled, lvSpawned, lvWg, lvQueue, liveFrame>>

\* ch <- sample, in Get or in runCollector: the worker waits for the
\* receiver
LiveSend(c) ==
    /\ lvW[c] \in {"emit", "dur", "errTotal", "up"}
    /\ ~Queued(c)
    /\ lvQueue' = Append(lvQueue, c)
    /\ UNCHANGED <<lvPc, lvEnabled, lvSpawned, lvWg, lvW, lvAt, lvTodo,
                   liveFrame>>

\* the receiver takes the sample of the sender that waited longest, and the
\* sender goes on
LiveReceive ==
    /\ lvQueue # <<>>
    /\ lvQueue' = Tail(lvQueue)
    /\ LET s == Head(lvQueue)
       IN  IF s = "collect"
           THEN /\ lvPc' = "spawn"
                /\ UNCHANGED <<lvW, lvAt, lvTodo>>
           ELSE /\ UNCHANGED lvPc
                /\ CASE lvW[s] = "emit" /\ lvTodo[s] > 1 ->
                            /\ lvTodo' = [lvTodo EXCEPT ![s] = @ - 1]
                            /\ UNCHANGED <<lvW, lvAt>>
                     [] lvW[s] = "emit" /\ lvTodo[s] <= 1 ->
                            /\ lvTodo' = [lvTodo EXCEPT ![s] = 0]
                            /\ LiveGoTo(s, lvAt[s] + 1)
                     [] lvW[s] = "dur" ->
                            /\ lvW' = [lvW EXCEPT ![s] = "errTotal"]
                            /\ UNCHANGED <<lvAt, lvTodo>>
                     [] lvW[s] = "errTotal" ->
                            /\ lvW' = [lvW EXCEPT ![s] = "up"]
                            /\ UNCHANGED <<lvAt, lvTodo>>
                     [] lvW[s] = "up" ->
                            /\ lvW' = [lvW EXCEPT ![s] = "exit"]
                            /\ UNCHANGED <<lvAt, lvTodo>>
    /\ UNCHANGED <<lvEnabled, lvSpawned, lvWg, liveFrame>>

\* runCollector returns: the deferred wg.Done()
LiveDone(c) ==
    /\ lvW[c] = "exit"
    /\ lvWg' = lvWg - 1
    /\ lvW' = [lvW EXCEPT ![c] = "done"]
    /\ UNCHANGED <<lvPc, lvEnabled, lvSpawned, lvAt, lvTodo, lvQueue,
                   liveFrame>>

LiveCollect == LiveSendTotal \/ LiveSpawn \/ LiveLoopEnd \/ LiveWait

LiveWorker(c) ==
    LiveDial(c) \/ LiveExec(c) \/ LiveProcess(c) \/ LiveSend(c) \/ LiveDone(c)

NextLive ==
    \/ LiveStart
    \/ LiveSendTotal
    \/ LiveSpawn
    \/ LiveLoopEnd
    \/ LiveWait
    \/ \E c \in Collectors : LiveDial(c)
    \/ \E c \in Collectors : LiveExec(c)
    \/ \E c \in Collectors : LiveProcess(c)
    \/ \E c \in Collectors : LiveSend(c)
    \/ LiveReceive
    \/ \E c \in Collectors : LiveDone(c)

\* The scheduling: a goroutine that can run does run; every dial and every
\* Exec returns; the receiver of the channel keeps receiving.  Nothing
\* requires another request to arrive.
LiveFairness ==
    /\ WF_vars(LiveCollect)
    /\ \A c \in Collectors : WF_vars(LiveWorker(c))
    /\ WF_vars(LiveReceive)

SpecLive == Init /\ [][NextLive]_vars /\ LiveFairness

\* ==================================================================
\* SpecTarget: requests served at the same time, each with its own target
\* and configuration
\* ==================================================================
Requests == 1..MaxRequests

Targets == {"a.example", "b.example"}

NoRequest == [target |-> "", config |-> ""]

\* collector.Config{...} of the handler: the SSH client configuration and
\* the feature keys are those of the request's config, the target is the
\* request's target
ConfigOf(req) ==
    [SSHClientConfig |-> req.config, SSHTarget |-> req.target,
     BGPTypeKeys |-> req.config]

\* what a collector dialed with, and the feature keys it mapped with
Used(target, ssh, keys) == [target |-> target, ssh |-> ssh, keys |-> keys]

NotDialed == Used("", "", "")

\* a request with valid parameters arrives
TargetArrive(r) ==
    /\ tgPc[r] = "idle"
    /\ \E t \in Targets, c \in ConfigNames :
        tgReq' = [tgReq EXCEPT ![r] = [target |-> t, config |-> c]]
    /\ tgPc' = [tgPc EXCEPT ![r] = "handler"]
    /\ UNCHANGED <<tgExp, tgUsed, sshTarget, sshClientConfig, targetFrame>>

\* handler: the Exporter of this request is built with the request's
\* Config; SetConnectionDetails stores the SSH configuration and the target
\* in the package-level sshClientConfig and sshTarget
TargetHandler(r) ==
    /\ tgPc[r] = "handler"
    /\ tgExp' = [tgExp EXCEPT ![r] = ConfigOf(tgReq[r])]
    /\ sshTarget' = tgReq[r].target
    /\ sshClientConfig' = tgReq[r].config
    /\ tgPc' = [tgPc EXCEPT ![r] = "collect"]
    /\ UNCHANGED <<tgReq, tgUsed, targetFrame>>

\* a collector with Get(ch, conf): netconf.DialSSH(conf.SSHTarget,
\* conf.SSHClientConfig), and the mapping with conf.BGPTypeKeys
TargetGet(r) ==
    /\ tgPc[r] = "collect"
    /\ tgUsed' = [tgUsed EXCEPT ![r] =
                    Used(tgExp[r].SSHTarget, tgExp[r].SSHClientConfig,
                         tgExp[r].BGPTypeKeys)]
    /\ tgPc' = [tgPc EXCEPT ![r] = "dialed"]
    /\ UNCHANGED <<tgReq, tgExp, sshTarget, sshClientConfig, targetFrame>>

\* a collector with Collect(ch): netconf.DialSSH(sshTarget,
\* sshClientConfig), the package-level variables as they are now
TargetCollect(r) ==
    /\ tgPc[r] = "collect"
    /\ tgUsed' = [tgUsed EXCEPT ![r] =
                    Used(sshTarget, sshClientConfig, tgExp[r].BGPTypeKeys)]
    /\ tgPc' = [tgPc EXCEPT ![r] = "dialed"]
    /\ UNCHANGED <<tgReq, tgExp, sshTarget, sshClientConfig, targetFrame>>

\* the scrape is over and the response written
TargetFinish(r) ==
    /\ tgPc[r] = "dialed"
    /\ tgPc' = [tgPc EXCEPT ![r] = "idle"]
    /\ tgReq' = [tgReq EXCEPT ![r] = NoRequest]
    /\ tgExp' = [tgExp EXCEPT ![r] = ConfigOf(NoRequest)]
    /\ tgUsed' = [tgUsed EXCEPT ![r] = NotDialed]
    /\ UNCHANGED <<sshTarget, sshClientConfig, targetFrame>>

NextTarget ==
    \/ \E r \in Requests : TargetArrive(r)
    \/ \E r \in Requests : TargetHandler(r)
    \/ \E r \in Requests : TargetGet(r)
    \/ \E r \in Requests : TargetCollect(r)
    \/ \E r \in Requests : TargetFinish(r)

SpecTarget == Init /\ [][NextTarget]_vars

\* ==================================================================
\* SpecOptics: the module alarm and warning gauges of one optics interface
\* ==================================================================
AlarmFields ==
    {"ModuleTemperatureHighAlarm", "ModuleTemperatureLowAlarm",
     "ModuleTemperatureHighWarn", "ModuleTemperatureLowWarn",
     "ModuleVoltageHighAlarm", "ModuleVoltageLowAlarm",
     "ModuleVoltageHighWarn", "ModuleVoltageLowWarn"}

\* texts of an alarm field of the reply
AlarmTexts == {"off", "on", "OFF"}

\* The two variables of a high/low pair as the code leaves them when the
\* two samples are sent: the high one is set from the high field and sent;
\* the low one starts at 0.0, the test of the low field assigns the high
\* variable again, and the low variable is sent as it was declared.
AlarmPair(high, low) ==
    LET highVar == IF high = "off" THEN 1 ELSE 0
        lowVar  == 0
        highVarAfter == IF low = "off" THEN 1 ELSE highVar
    IN  [sentHigh |-> highVar, sentLow |-> lowVar, highLeft |-> highVarAfter]

\* processOpticsNetconfReply: the eight samples of one interface, by the
\* name of the descriptor each is sent with
OpticsAlarms(d) ==
    LET tAlarm == AlarmPair(d.ModuleTemperatureHighAlarm,
                            d.ModuleTemperatureLowAlarm)
        tWarn  == AlarmPair(d.ModuleTemperatureHighWarn,
                            d.ModuleTemperatureLowWarn)
        vAlarm == AlarmPair(d.ModuleVoltageHighAlarm,
                            d.ModuleVoltageLowAlarm)
        vWarn  == AlarmPair(d.ModuleVoltageHighWarn,
                            d.ModuleVoltageLowWarn)
    IN  [ModuleTemperatureHighAlarm |-> tAlarm.sentHigh,
         ModuleTemperatureLowAlarm  |-> tAlarm.sentLow,
         ModuleTemperatureHighWarn  |-> tWarn.sentHigh,
         ModuleTemperatureLowWarn   |-> tWarn.sentLow,
         ModuleVoltageHighAlarm     |-> vAlarm.sentHigh,
         ModuleVoltageLowAlarm      |-> vAlarm.sentLow,
         ModuleVoltageHighWarn      |-> vWarn.sentHigh,
         ModuleVoltageLowWarn       |-> vWarn.sentLow]

\* the reply with the diagnostics of one interface arrives
OpticsReceive ==
    /\ opStage = "idle"
    /\ \E d \in [AlarmFields -> AlarmTexts] : opIn' = d
    /\ opStage' = "received"
    /\ UNCHANGED <<opOut, opticsFrame>>

\* the samples of the interface are sent
OpticsProcess ==
    /\ opStage = "received"
    /\ opOut' = OpticsAlarms(opIn)
    /\ opStage' = "sent"
    /\ UNCHANGED <<opIn, opticsFrame>>

NextOptics == OpticsReceive \/ OpticsProcess

SpecOptics == Init /\ [][NextOptics]_vars

\* ==================================================================
\* Properties
\* ==================================================================
Running(c) == pc[c] \notin {"idle", "start", "ret", "sendErrTotal",
                            "sendUp", "done"}

Failed == {c \in Collectors : dialFailed[c]}

C3_WaitBarrier ==
    epc = "returned" =>
        \A c \in enabled :
            /\ pc[c] = "done"
            /\ outDur[c] = 1
            /\ Len(outErrTotal[c]) = 1
            /\ Len(outUp[c]) = 1

C3_Witness ==
    /\ epc = "returned"
    /\ Cardinality(enabled) = 2
    /\ \A c \in enabled : pc[c] = "done" /\ Len(outUp[c]) = 1

\* the steps of collector c's worker
WorkerStep(c) ==
    \/ Dial(c)
    \/ SendDuration(c)
    \/ SendErrTotal(c)
    \/ SendUp(c)
    \/ /\ c = "interface"
       /\ (IfaceExec \/ IfaceEmit \/ IfaceSpeedError)
    \/ /\ c = "ipsec"
       /\ \/ IpsecExecInactive
          \/ IpsecEmitInactive
          \/ IpsecExecActive
          \/ IpsecEmitActive
    \/ /\ c = "bgp"
       /\ \/ BgpExecSummary
          \/ BgpExecNeighbor
          \/ BgpExecInstance
          \/ BgpExecPerInstance
          \/ BgpProcessInstanceError
          \/ BgpProcessInstance
          \/ BgpProcessPeers
          \/ BgpNeighborEmit

\* what collector c's worker has done and sent in this scrape
Local(c) ==
    <<pc[c], session[c], errs[c], total[c], retTotal[c], todo[c], rpcs[c],
      feat[c], dialFailed[c], rpcFailed[c], decFailed[c], outDur[c],
      outErrTotal[c], outUp[c]>>

\* C4: within a scrape no step that changes one collector's worker - a
\* failure at any stage included - changes anything of another collector's
\* worker: its position, its errors, its counter, its samples or its
\* collector_up.
C4_Isolation ==
    [][scrapeNo' = scrapeNo =>
          Cardinality({c \in Collectors : Local(c)' # Local(c)}) <= 1]_vars

\* C4: in every state every started worker that is not done has a step it
\* can take: it never waits for another collector.
C4_NeverBlocked ==
    \A c \in Collectors :
        pc[c] \notin {"idle", "done"} => ENABLED WorkerStep(c)

C4_Witness ==
    /\ epc = "returned"
    /\ \E c, d \in enabled : outUp[c] = <<0>> /\ outUp[d] = <<1>>

\* C5: the collector_up sample is 0 when this scrape's Get recorded an error
\* (the cumulative counter moved since the call) and 1 otherwise, whatever
\* the counter was before the call.
C5_UpIffErrors ==
    \A c \in Collectors :
        outUp[c] # <<>> =>
            /\ outUp[c][1] \in {0, 1}
            /\ outUp[c][1] = 0 <=> total[c] > base[c]
            /\ outUp[c][1] = 0 <=> errs[c] > 0

C5_Witness ==
    /\ scrapeNo = 2
    /\ \E c \in Collectors : base[c] > 0 /\ outUp[c] = <<1>>

\* C6: no collector gets more than one duration, one errors-total and one
\* collector_up sample in a scrape; when Collect has returned every enabled
\* collector has exactly one of each, and the others none.
C6_BookkeepingOnce ==
    /\ \A c \in Collectors :
          outDur[c] <= 1 /\ Len(outErrTotal[c]) <= 1 /\ Len(outUp[c]) <= 1
    /\ epc = "returned" =>
          \A c \in Collectors :
              LET n == IF c \in enabled THEN 1 ELSE 0
              IN  /\ outDur[c] = n
                  /\ Len(outErrTotal[c]) = n
                  /\ Len(outUp[c]) = n

C6_Witness ==
    /\ epc = "returned"
    /\ \E c, d \in enabled :
          /\ errs[c] >= 2
          /\ errs[d] = 1
          /\ outDur[c] = 1 /\ Len(outErrTotal[c]) = 1 /\ outUp[c] = <<0>>
          /\ outDur[d] = 1 /\ Len(outErrTotal[d]) = 1 /\ outUp[d] = <<0>>

\* C7: a scrape adds one to the scrape counter and sends scrapes_total, with
\* the new count, before any worker is started and before any other sample.
C7_ScrapesTotalFirst ==
    /\ Len(outScrapes) <= 1
    /\ junosTotalScrapeCount = IF epc = "inc" THEN scrapeNo - 1 ELSE scrapeNo
    /\ outScrapes # <<>> => outScrapes[1] = scrapeNo
    /\ \A c \in Collectors :
          (\/ pc[c] # "idle"
           \/ feat[c] > 0
           \/ outDur[c] > 0
           \/ outErrTotal[c] # <<>>
           \/ outUp[c] # <<>>) => Len(outScrapes) = 1

C7_Witness ==
    /\ outScrapes = <<2>>
    /\ \E c \in Collectors : pc[c] = "ret" /\ feat[c] > 0

\* C8: the step in which an Exec fails records exactly one error, adds one
\* to the cumulative counter, sends nothing and ends the Get call; a Get
\* call with a failed Exec has returned, so it issues no other RPC.
C8_RpcFailureReturns ==
    [][\A c \in Collectors :
         /\ (rpcFailed'[c] /\ ~rpcFailed[c]) =>
               /\ errs'[c] = errs[c] + 1
               /\ total'[c] = total[c] + 1
               /\ rpcs'[c] = rpcs[c] + 1
               /\ feat'[c] = feat[c]
               /\ pc'[c] = "ret"
               /\ retTotal'[c] = total'[c]
         /\ rpcFailed[c] => pc[c] = "ret"
      ]_vars

C8_Witness ==
    \E c \in Collectors :
        /\ rpcFailed[c]
        /\ pc[c] = "ret"
        /\ rpcs[c] >= 2
        /\ feat[c] >= 1

\* C9 (as stated): the step in which a decode fails records exactly one
\* error and one counter increment and ends the Get call: no RPC, no decode
\* and no sample follow it.
C9_DecodeFailureAborts ==
    [][\A c \in Collectors :
         /\ (decFailed'[c] /\ ~decFailed[c]) =>
               /\ errs'[c] = errs[c] + 1
               /\ total'[c] = total[c] + 1
               /\ pc'[c] = "ret"
         /\ decFailed[c] => pc[c] = "ret"
      ]_vars

\* the text the helper hands to ParseFloat
Parsed(fn, metric) ==
    IF fn = "newGaugeMB" THEN ParseFloat(TrimSpace(FindDigits(metric)))
    ELSE ParseFloat(TrimSpace(metric))

\* C10 (as stated): a helper sends a sample for a field only when its text
\* yields a number: nothing is sent and nothing logged for an empty text,
\* nothing is sent and one error is logged for a text that does not parse,
\* and one sample and no error for a text that parses.
C10_SampleOnlyWhenParsed ==
    idx > 0 =>
        IF field = <<>> THEN convOut = <<>> /\ convLog = 0
        ELSE IF Parsed(fnName, field).ok
             THEN Len(convOut) = 1 /\ convLog = 0
             ELSE convOut = <<>> /\ convLog = 1

\* C11 (as stated): a field that fails its numeric conversion never
\* escalates: the interface collector's Get records an error, and adds to its
\* counter, only for a failed dial, a failed RPC or a failed decode, and an
\* interface entry that is being mapped never ends the Get call with entries
\* left unmapped.
C11_ConversionNeverEscalates ==
    [][LET c == "interface"
       IN  /\ (errs'[c] > errs[c] \/ total'[c] > total[c]) =>
                 \/ dialFailed'[c] /\ ~dialFailed[c]
                 \/ rpcFailed'[c] /\ ~rpcFailed[c]
                 \/ decFailed'[c] /\ ~decFailed[c]
           /\ (pc[c] = "emit" /\ todo[c] > 1) => pc'[c] = "emit"
      ]_vars

\* C12: over scrapes that follow one another a collector's cumulative error
\* counter never decreases, and the count a Get call returns is the counter's
\* value, which is its value when Get was called plus the number of errors
\* in the list the call returns.
C12_CumulativeCount ==
    [][\A c \in Collectors :
         /\ total'[c] >= total[c]
         /\ (pc'[c] = "ret" /\ pc[c] # "ret") =>
               /\ retTotal'[c] = total'[c]
               /\ retTotal'[c] = base'[c] + errs'[c]
         /\ (outErrTotal'[c] # outErrTotal[c] /\ outErrTotal'[c] # <<>>) =>
               outErrTotal'[c] = <<total[c]>>
      ]_vars

C12_Witness ==
    \E c \in Collectors :
        /\ scrapeNo = 2
        /\ pc[c] = "done"
        /\ base[c] >= 1
        /\ errs[c] >= 1
        /\ outErrTotal[c] = <<base[c] + errs[c]>>

RECURSIVE SumErrs(_)
SumErrs(n) == IF n = 0 THEN 0 ELSE rErrs[n] + SumErrs(n - 1)

\* C13 (as stated): when overlapping scrapes run the same collector no
\* increment of its counter is lost - once all Get calls have returned the
\* counter is the number of errors they recorded - and no Get call returns
\* less than a call that returned before it.
C13_NoLostIncrement ==
    /\ (\A g \in Calls : rPc[g] = "done") => rTotal = SumErrs(MaxOverlap)
    /\ \A i, j \in 1..Len(rOrder) : i <= j => rOrder[i] <= rOrder[j]

\* the healthy value of each state field
Healthy(kind) ==
    CASE kind \in {"powerState"} -> Online
      [] kind \in {"acInputState", "envStatus", "reStatus"} -> OKText
      [] kind = "ospfState" -> Full
      [] kind = "reMastership" -> master

\* C14 (as stated): a state field is mapped to 1 exactly when its text equals
\* the healthy value of the field compared case-insensitively, and to 0 for
\* every other text; one sample is sent and no other value.
C14_CaseInsensitiveState ==
    stKind \in StateKinds =>
        /\ Len(stOut) = 1
        /\ stOut[1] \in {0, 1}
        /\ stOut[1] = 1 <=> ToLower(stText) = ToLower(Healthy(stKind))

\* C15 (as stated): for every sample, every reply and every configuration
\* of description, metric and type keys, as many label values are passed as
\* the metric's Desc declares label names.
C15_LabelArity == arMetric # "none" => Len(arValues) = Len(arNames)

\* C16 (as stated): mapping the same replies again with the same
\* configuration yields the same set of samples, the per-instance RIB
\* totals of an instance with more than one RIB included.
C16_DecodeTwiceSame ==
    \A i, j \in 1..Len(rbRuns) : DOMAIN rbRuns[i] = DOMAIN rbRuns[j]

\* the peer address of an entry without its "+port" suffix and without
\* surrounding blanks
StrippedAddress(p) == TrimSpace(BeforePlus(PeerAddressOf(p)))

\* C17 (as stated): for every bgp-peer entry that has an address, the peer
\* label of its samples is the address without the "+port" suffix, the
\* direct peer-address preferred to the one of the bgp-peer-header, and the
\* interface label is the local-interface-name of that same entry.
C17_PeerLabels ==
    \A i \in 1..Len(pvIn) :
        PeerAddressOf(pvIn[i]) # <<>> =>
            /\ pvStage \in {"mapped", "done"} =>
                  /\ pvOut[i].peer = StrippedAddress(pvIn[i])
                  /\ pvIn[i].PeerAddress # <<>> =>
                        pvOut[i].peer = TrimSpace(BeforePlus(pvIn[i].PeerAddress))
                  /\ pvOut[i].interface = TrimSpace(pvIn[i].LocalInterfaceName)
            /\ pvStage = "done" =>
                  /\ pvNb[i] # <<>>
                  /\ pvNb[i][1].peer = StrippedAddress(pvIn[i])
                  /\ pvNb[i][1].interface = TrimSpace(pvIn[i].LocalInterfaceName)

\* the per-instance RPCs issued for a name so far
IssuedFor(name) == Cardinality({i \in 1..Len(inLog) : inLog[i] = name})

\* the distinct names the instance reply returned
Returned == IF inReply.ok THEN routeInstanceNames(inReply.names) ELSE {}

OnePerInstance ==
    \A name \in Returned :
        IssuedFor(name) = IF IsReservedInstance(name) THEN 0 ELSE 1

\* C18 (as stated): when the call is over, exactly one per-instance RPC
\* was issued for each distinct name the instance reply returned that holds
\* none of the reserved markers, and none for a name that holds one.
C18_OnePerInstance == inPc \in {"process", "ret"} => OnePerInstance

\* C18 (amended): no per-instance RPC is ever issued for a reserved name
\* or for a name the reply did not return, and at most one for any name;
\* when the range loop ends without a failed RPC, exactly one was issued
\* for each distinct non-reserved name.
C18_OnePerInstanceUntilFailure ==
    /\ \A i \in 1..Len(inLog) :
          /\ inLog[i] \in Returned
          /\ ~IsReservedInstance(inLog[i])
          /\ IssuedFor(inLog[i]) = 1
    /\ inPc = "process" => OnePerInstance

C18_Witness ==
    /\ inPc = "process"
    /\ Len(inLog) = 2
    /\ \E i, j \in 1..Len(inReply.names) :
          i # j /\ inReply.names[i] = inReply.names[j]

\* the positions of the BGP Get in which samples are mapped and sent
BgpMapping == {"procInst", "procPeers", "nbrEmit"}

\* C19: the BGP Get issues the summary RPC first, the neighbor RPC second
\* and the instance RPC third; a per-instance RPC is issued only after these
\* three returned without error; a sample is sent only when no RPC is left
\* to issue, and after a sample no RPC is issued in the call.
C19_RpcOrder ==
    [][LET c == "bgp"
           issued == rpcs'[c] = rpcs[c] + 1
       IN  /\ (issued /\ pc[c] = "execSummary") => rpcs[c] = 0
           /\ (issued /\ pc[c] = "execNeighbor") => rpcs[c] = 1
           /\ (issued /\ pc[c] = "execInstance") => rpcs[c] = 2
           /\ (issued /\ pc[c] = "perInst") =>
                 /\ rpcs[c] >= 3
                 /\ ~rpcFailed[c]
           /\ issued => pc[c] \in {"execSummary", "execNeighbor",
                                   "execInstance", "perInst"}
           /\ issued => feat[c] = 0 /\ feat'[c] = 0
           /\ feat'[c] > feat[c] =>
                 /\ pc[c] \in BgpMapping
                 /\ bgp.query = {}
                 /\ rpcs'[c] = rpcs[c]
                 /\ rpcs[c] >= 3
                 /\ ~rpcFailed[c]
      ]_vars

C19_Witness ==
    /\ pc["bgp"] \in BgpMapping
    /\ rpcs["bgp"] = 4
    /\ feat["bgp"] >= 1
    /\ ~rpcFailed["bgp"]

\* the type values of peer i: the values under a configured key in its
\* JSON description, without surrounding blanks
TypesOfPeer(i) ==
    {TrimSpace(PeerTypeOf(tyKeys, tyPeers[i], tyKeys[k])) :
        k \in {j \in 1..Len(tyKeys) :
                 PeerTypeOf(tyKeys, tyPeers[i], tyKeys[j]) # <<>>}}

TypesFound == UNION {TypesOfPeer(i) : i \in 1..Len(tyPeers)}

EstablishedOfType(t) ==
    {i \in 1..Len(tyPeers) :
        /\ t \in TypesOfPeer(i)
        /\ ToLower(tyPeers[i].PeerState) = established}

\* C20 (as stated): for every type value found under a configured type key
\* in a peer's JSON description exactly one peer_types_up sample with that
\* type is sent, and no other; its value is the number of peers of that
\* type whose state is "established" in any case, 0 when there is none.
C20_PeerTypesUp ==
    tyStage = "done" =>
        tyOut = {<<t, Cardinality(EstablishedOfType(t))>> : t \in TypesFound}

\* C21: in one mapping of the replies every RIB total (and the group count)
\* is sent at most once per routing_instance label value, whatever RIB names
\* belong to the instance and whatever bgp-rib elements its reply holds.
C21_RibTotalsOnce ==
    \A r \in 1..Len(rbRuns) :
        \A x, y \in DOMAIN rbRuns[r] :
            /\ rbRuns[r][x] = 1
            /\ (x[1] = y[1] /\ x[4] = y[4]) => x = y

\* both RIB names belong to instance A and its reply holds two bgp-rib
\* elements, one per name: one RIB total was sent for A
C21_Witness ==
    /\ Len(rbRuns) >= 1
    /\ \A n \in RibNames :
          /\ n \in DOMAIN rbIn.routeInstances
          /\ rbIn.routeInstances[n] = "A"
    /\ Len(rbIn.summary["A"]) = 2
    /\ rbIn.summary["A"][1].name # rbIn.summary["A"][2].name
    /\ \E x \in DOMAIN rbRuns[1] :
          x[1] = "RIBTotalPrefixCount" /\ x[4] = <<"A">>

\* C22 (as stated): the class label values sent for one interface are
\* pairwise distinct, the first occurrence of a name sent unchanged and
\* every later one with its occurrence index, for every sequence of names.
C22_ClassLabelsDistinct ==
    clStage = "done" =>
        /\ Len(clOut) = Len(clIn)
        /\ \A i, j \in 1..Len(clOut) : i # j => clOut[i] # clOut[j]
        /\ \A i \in 1..Len(clIn) :
              (\A j \in 1..(i - 1) : TrimSpace(clIn[j]) # TrimSpace(clIn[i]))
                  => clOut[i] = TrimSpace(clIn[i])

\* a traffic sub-structure with at least one field holding a text
Populated(stats) == \E f \in DOMAIN stats : stats[f] # <<>>

\* C23 (as stated): the traffic samples of a logical interface are made
\* from the lag bundle whenever any field of the lag bundle holds a text,
\* and from the transit statistics only when the lag bundle is empty.
C23_LagPreferred ==
    lgStage = "done" =>
        lgOut = IF Populated(lgIn.lag) THEN lgIn.lag ELSE lgIn.transit

\* the member under a key holds a string
HasString(key) == dkIn.text = "object" /\ dkIn.members[key] = "string"

\* C24 (as stated): looking up the configured keys never panics, whatever
\* the description: a description key without a string value gives an
\* empty label, a metric key without a string value gives no sample.
C24_LookupNeverFails ==
    dkStage = "done" =>
        /\ ~dkOut.panic
        /\ Len(dkIn.descrKeys) > 0 =>
              /\ Len(dkOut.labels) = 1 + Len(dkIn.descrKeys)
              /\ \A i \in 1..Len(dkIn.descrKeys) :
                    dkOut.labels[i + 1] =
                        IF HasString(dkIn.descrKeys[i]) THEN <<"v">> ELSE <<>>
        /\ \A k \in KeyNames :
              (\E i \in 1..Len(dkOut.metrics) : dkOut.metrics[i] = k)
                  <=> (HasString(k) /\ k \in Range(dkIn.metricKeys))

\* the request is permitted: an existing config, a target, and the target
\* in the config's allowed_targets when it has some, else in the global
\* allowed_targets when there are some
Permitted ==
    /\ rqIn.config \in ConfigNames
    /\ rqIn.target # ""
    /\ LET own == IF rqIn.config = "default" THEN rqIn.allowed ELSE <<>>
       IN  IF own # <<>> THEN rqIn.target \in Range(own)
           ELSE IF rqIn.global # <<>> THEN rqIn.target \in Range(rqIn.global)
           ELSE TRUE

\* C25: a scrape is started only for a permitted request; every other
\* request is answered with 400 and no exporter is created for it.
C25_OnlyPermittedScrapes ==
    /\ rqStage = "scrape" => Permitted /\ rqStatus = 0 /\ rqExporters = 1
    /\ rqStage = "rejected" => ~Permitted /\ rqStatus = 400 /\ rqExporters = 0
    /\ rqStage \in {"idle", "got"} => rqExporters = 0

\* a target that only the global list permits is refused by a config with
\* its own list
C25_Witness ==
    /\ rqStage = "rejected"
    /\ rqIn.config = "default"
    /\ rqIn.allowed # <<>>
    /\ rqIn.target \in Range(rqIn.global)

\* the value the help text of junos_fpc_state documents for a state
FpcDocumented(text) ==
    LET t == ToLower(text)
    IN  IF t = <<"o", "f", "f", "l", "i", "n", "e">> THEN 0
        ELSE IF t = <<"o", "n", "l", "i", "n", "e">> THEN 1
        ELSE IF t = <<"e", "m", "p", "t", "y">> THEN 2
        ELSE 4

\* C26 (as stated): the state gauge of an FPC is 0 for Offline, 1 for
\* Online, 2 for Empty and 4 for any other state, in any case of letters.
C26_FpcStateValues ==
    stKind = "fpcState" => stOut = <<FpcDocumented(stText)>>

\* C27: when every dial and every Exec returns and the receiver of the
\* metrics channel keeps receiving, every call of Exporter.Collect returns,
\* for any number of enabled collectors, zero included.
C27_CollectReturns == (lvPc = "sendTotal") ~> (lvPc = "returned")

\* Collect has returned after workers waited for the receiver one behind the
\* other and every worker has called Done
C27_Witness ==
    /\ lvPc = "returned"
    /\ Cardinality(lvEnabled) >= 2
    /\ \A c \in lvEnabled : lvW[c] = "done"
    /\ lvWg = 0

\* C28: a session a Get call opened is closed exactly once when the call
\* returns, whether it ends normally, on an Exec error at any position or
\* after a decode error; a Get whose dial failed has no session to close;
\* Close is only called on an open session and an RPC is only issued on an
\* open session.
C28_SessionClosedOnce ==
    [][\A c \in Collectors :
        /\ (pc[c] # "ret" /\ pc'[c] = "ret") =>
              IF dialFailed'[c]
              THEN session'[c] = "none" /\ closes'[c] = 0
              ELSE session'[c] = "closed" /\ closes'[c] = 1
        /\ closes'[c] > closes[c] =>
              /\ session[c] = "open"
              /\ session'[c] = "closed"
              /\ pc'[c] = "ret"
        /\ rpcs'[c] > rpcs[c] => session[c] = "open"
        /\ session[c] = "open" => pc'[c] = "ret" \/ session'[c] = "open"]_vars

\* one Get has returned on an Exec error and another after a decode error,
\* each with its session closed once
C28_Witness ==
    \E c, d \in Collectors :
        /\ c # d
        /\ pc[c] = "ret" /\ rpcFailed[c] /\ closes[c] = 1
        /\ pc[d] = "ret" /\ decFailed[d] /\ ~rpcFailed[d] /\ closes[d] = 1
        /\ session[c] = "closed" /\ session[d] = "closed"

\* C29 (as stated): with requests for different targets or configurations
\* served at the same time, every collector dials the target, and uses the
\* SSH configuration and the feature keys, of the request it runs for.
C29_OwnConnectionDetails ==
    \A r \in Requests :
        tgPc[r] = "dialed" =>
            /\ tgUsed[r].target = tgReq[r].target
            /\ tgUsed[r].ssh = tgReq[r].config
            /\ tgUsed[r].keys = tgReq[r].config

\* C30 (as stated): each of the eight module alarm and warning gauges of an
\* optics interface is 1 exactly when its own field of the reply is "off",
\* and 0 otherwise, whatever the other seven fields are.
C30_AlarmGaugeOwnField ==
    opStage = "sent" =>
        \A f \in AlarmFields : opOut[f] = (IF opIn[f] = "off" THEN 1 ELSE 0)

====
